---- MODULE Spec2Model ----
(***************************************************************************)
(* Model of the WeatherApp domain core: the Location and Notification      *)
(* entities (models/Location.ts, models/Notification.ts), the              *)
(* localStorage-backed StorageService (services/StorageService.ts), the    *)
(* daily bucketing of Forecast (models/Weather.ts), the error mapping of   *)
(* WeatherService (services/WeatherService.ts) and the polling engine      *)
(* NotificationManager.                                                    *)
(*                                                                         *)
(* Conventions                                                             *)
(*  - a JS string that the code trims or lower-cases is a sequence of      *)
(*    one-character strings;                                               *)
(*  - a raw coordinate is an integer number of 1e-5 degrees, a stored      *)
(*    (4-decimal) coordinate an integer number of 1e-4 degrees;            *)
(*  - a call that may throw returns [ok |-> BOOLEAN, ...];                 *)
(*  - Date.now() is the variable now, and Math.random() yields the fresh   *)
(*    token rnd + 1 (two draws never collide).                             *)
(***************************************************************************)
EXTENDS Integers, Sequences, FiniteSets, TLC

VARIABLES
    favItem,    \* localStorage['weather_favorites']
    notifItem,  \* localStorage['weather_notifications']
    getFault,   \* localStorage.getItem throws
    setFault,   \* localStorage.setItem / removeItem throw
    issued,     \* the Notification objects addNotification has returned
    last,       \* the last StorageService call: arguments, outcome, store before
    now,        \* Date.now()
    rnd,        \* number of Math.random() tokens drawn so far
    notif,      \* the Notification object under test (entity specification)
    out,        \* the last call made on notif and its outcome
    engine,     \* the NotificationManager's fields
    passes,     \* the executions of checkNotifications, in order of their start
    events,      \* the triggered events delivered to the callbacks, in order
    app         \* the WeatherApp object: its current* fields and what the UI shows

vars == <<favItem, notifItem, getFault, setFault, issued, last, now, rnd, notif, out,
          engine, passes, events, app>>

pollVars == <<engine, passes, events>>

storeVars == <<favItem, notifItem, getFault, setFault, issued, last>>

ruleVars == <<notif, out>>

---------------------------------------------------------------------------
(* Bounds *)

MaxNow == 1

MaxRnd == 6

\* Math.random() tokens drawn in the entity specification
MaxTokens == 2

MaxNotifs == 2

MaxFavs == 2

---------------------------------------------------------------------------
(* Generic helpers *)

UpperChars == <<"A","B","C","D","E","F","G","H","I","J","K","L","M",
                "N","O","P","Q","R","S","T","U","V","W","X","Y","Z">>

LowerChars == <<"a","b","c","d","e","f","g","h","i","j","k","l","m",
                "n","o","p","q","r","s","t","u","v","w","x","y","z">>

toLowerChar(c) ==
    IF \E i \in 1..Len(UpperChars) : UpperChars[i] = c
    THEN LowerChars[CHOOSE i \in 1..Len(UpperChars) : UpperChars[i] = c]
    ELSE c

\* String.prototype.toLowerCase
toLowerCase(s) == [i \in 1..Len(s) |-> toLowerChar(s[i])]

RECURSIVE trimStart(_)
trimStart(s) == IF s # <<>> /\ Head(s) = " " THEN trimStart(Tail(s)) ELSE s

RECURSIVE trimEnd(_)
trimEnd(s) ==
    IF s # <<>> /\ s[Len(s)] = " " THEN trimEnd(SubSeq(s, 1, Len(s) - 1)) ELSE s

\* String.prototype.trim
trim(s) == trimEnd(trimStart(s))

Abs(x) == IF x < 0 THEN -x ELSE x

\* Number(x.toFixed(4)): a raw coordinate (1e-5 degrees) to the nearest
\* multiple of 1e-4 degrees, expressed in 1e-4 degrees.
toFixed4(x) ==
    LET m == (Abs(x) + 5) \div 10
    IN  IF x < 0 THEN -m ELSE m

Ok(v) == [ok |-> TRUE, val |-> v]

Err(msg) == [ok |-> FALSE, error |-> msg]

---------------------------------------------------------------------------
(* models/Location.ts *)

\* the constructor with the limits 90 and 180 themselves rejected
LocationExclusive(name, country, lat, lon, t) ==
    IF trim(name) = <<>> THEN Err("Location name cannot be empty")
    ELSE IF trim(country) = <<>> THEN Err("Country cannot be empty")
    ELSE IF lat <= -9000000 \/ lat >= 9000000
         THEN Err("Latitude must be between -90 and 90 degrees")
    ELSE IF lon <= -18000000 \/ lon >= 18000000
         THEN Err("Longitude must be between -180 and 180 degrees")
    ELSE Ok([id        |-> <<toFixed4(lat), toFixed4(lon)>>,
             name      |-> trim(name),
             country   |-> trim(country),
             lat       |-> toFixed4(lat),
             lon       |-> toFixed4(lon),
             createdAt |-> t])

\* new Location(name, country, lat, lon), constructed at time t
Location(name, country, lat, lon, t) ==
    IF trim(name) = <<>> THEN Err("Location name cannot be empty")
    ELSE IF trim(country) = <<>> THEN Err("Country cannot be empty")
    ELSE IF lat < -9000000 \/ lat > 9000000
         THEN Err("Latitude must be between -90 and 90 degrees")
    ELSE IF lon < -18000000 \/ lon > 18000000
         THEN Err("Longitude must be between -180 and 180 degrees")
    ELSE Ok([id        |-> <<toFixed4(lat), toFixed4(lon)>>,
             name      |-> trim(name),
             country   |-> trim(country),
             lat       |-> toFixed4(lat),
             lon       |-> toFixed4(lon),
             createdAt |-> t])

\* Location.toJSON
LocationToJSON(l) ==
    [name |-> l.name, country |-> l.country, lat |-> l.lat, lon |-> l.lon]

\* Location.fromData: the record's coordinates are 4-decimal numbers
LocationFromData(d, t) == Location(d.name, d.country, d.lat * 10, d.lon * 10, t)

DigitChars == <<"0", "1", "2", "3", "4", "5", "6", "7", "8", "9">>

RECURSIVE digits(_)
\* the decimal digits of a natural number
digits(n) ==
    IF n < 10 THEN <<DigitChars[n + 1]>>
    ELSE Append(digits(n \div 10), DigitChars[(n % 10) + 1])

RECURSIVE stripZeros(_)
\* a fraction's digits without trailing zeros
stripZeros(ds) ==
    IF ds # <<>> /\ ds[Len(ds)] = "0" THEN stripZeros(SubSeq(ds, 1, Len(ds) - 1)) ELSE ds

\* the four digits of the fraction f / 10000
fraction(f) ==
    <<DigitChars[(f \div 1000) + 1], DigitChars[((f \div 100) % 10) + 1],
      DigitChars[((f \div 10) % 10) + 1], DigitChars[(f % 10) + 1]>>

\* numberToString that leaves out the sign
numberToStringUnsigned(x) ==
    LET whole == digits(Abs(x) \div 10000)
        frac == stripZeros(fraction(Abs(x) % 10000))
    IN  whole \o (IF frac = <<>> THEN <<>> ELSE <<".">> \o frac)

\* `${x}` of a stored coordinate x (1e-4 degrees): sign, whole part and,
\* if any, the point and the fraction without trailing zeros
numberToString(x) ==
    LET whole == digits(Abs(x) \div 10000)
        frac == stripZeros(fraction(Abs(x) % 10000))
    IN  (IF x < 0 THEN <<"-">> ELSE <<>>) \o whole
        \o (IF frac = <<>> THEN <<>> ELSE <<".">> \o frac)

\* `${this._lat}_${this._lon}`, the id as the string it is
idString(l) == numberToString(l.lat) \o <<"_">> \o numberToString(l.lon)

\* Location.equals
LocationEquals(a, b) == a.id = b.id

\* Location.getFullName
getFullName(l) == l.name \o <<",", " ">> \o l.country

\* -- Location.distanceTo. A real number is held in fixed point, as an
\* integer number of 1e-4 units, and every operation rounds its exact
\* result to the nearest representable value, the same way for a value and
\* for its negative, as IEEE-754 arithmetic does. --
Scale == 10000

\* the exact quotient a / b rounded to nearest (b > 0)
rdiv(a, b) ==
    LET m == (Abs(a) + b \div 2) \div b
    IN  IF a < 0 THEN -m ELSE m

\* x * y of two fixed-point numbers
mul(x, y) == rdiv(x * y, Scale)

\* Math.PI
PI == 31416

\* Location.toRadians: degrees (1e-4 degrees) * (Math.PI / 180)
toRadians(degrees) ==
    LET m == rdiv((Abs(degrees) \div 100) * 17453, 10000)
             + rdiv((Abs(degrees) % 100) * 17453, 1000000)
    IN  IF degrees < 0 THEN -m ELSE m

\* the sine series on [-PI/2, PI/2]
sinSeries(x) ==
    LET x2 == mul(x, x)
        t3 == rdiv(mul(x, x2), 6)
        t5 == rdiv(mul(t3, x2), 20)
        t7 == rdiv(mul(t5, x2), 42)
        t9 == rdiv(mul(t7, x2), 72)
    IN  x - t3 + t5 - t7 + t9

\* Math.sin on [-PI, PI]
sin(x) ==
    IF Abs(x) > PI \div 2
    THEN IF x < 0 THEN -sinSeries(PI - Abs(x)) ELSE sinSeries(PI - Abs(x))
    ELSE sinSeries(x)

\* Math.cos on [-PI/2, PI/2]
cos(x) ==
    LET x2 == mul(x, x)
        c2 == rdiv(x2, 2)
        c4 == rdiv(mul(c2, x2), 12)
        c6 == rdiv(mul(c4, x2), 30)
        c8 == rdiv(mul(c6, x2), 56)
    IN  Scale - c2 + c4 - c6 + c8

RECURSIVE isqrtBetween(_, _, _)
\* the largest r in lo..hi with r * r <= n
isqrtBetween(n, lo, hi) ==
    IF lo >= hi THEN lo
    ELSE LET mid == (lo + hi + 1) \div 2
         IN  IF mid * mid <= n THEN isqrtBetween(n, mid, hi)
             ELSE isqrtBetween(n, lo, mid - 1)

\* Math.sqrt of n >= 0 given in units of 1e-8, in units of 1e-4
sqrt(n) == isqrtBetween(n, 0, 2 * Scale)

\* Math.atan on [0, 1]
atan(z) ==
    LET y == rdiv(z * Scale, Scale + sqrt(Scale * Scale + z * z))
        y2 == mul(y, y)
        t3 == mul(y, y2)
        t5 == mul(t3, y2)
        t7 == mul(t5, y2)
    IN  2 * (y - rdiv(t3, 3) + rdiv(t5, 5) - rdiv(t7, 7))

\* Math.atan2(y, x) for y >= 0, x >= 0
atan2(y, x) ==
    IF x = 0 /\ y = 0 THEN 0
    ELSE IF y <= x THEN atan(rdiv(y * Scale, x))
    ELSE rdiv(PI, 2) - atan(rdiv(x * Scale, y))

\* a number a method returns: NaN, or a finite value in 1e-4 units
NaN == [nan |-> TRUE, v |-> 0]

Finite(v) == [nan |-> FALSE, v |-> v]

\* x === y on numbers
strictEquals(x, y) == ~x.nan /\ ~y.nan /\ x.v = y.v

\* Location.distanceTo in km; a is held in units of 1e-8, and
\* Math.sqrt(1 - a) is NaN when rounding has taken a above 1
distanceTo(this, other) ==
    LET dLat == toRadians(other.lat - this.lat)
        dLon == toRadians(other.lon - this.lon)
        a == sin(rdiv(dLat, 2)) * sin(rdiv(dLat, 2))
             + mul(mul(cos(toRadians(this.lat)), cos(toRadians(other.lat))),
                   sin(rdiv(dLon, 2))) * sin(rdiv(dLon, 2))
    IN  IF Scale * Scale - a < 0 THEN NaN
        ELSE Finite(6371 * (2 * atan2(sqrt(a), sqrt(Scale * Scale - a))))

---------------------------------------------------------------------------
(* models/Notification.ts *)

\* A rule is [condition |-> STRING, value |-> [t |-> type tag, v |-> Int]];
\* value.t is "undefined", "null", "number" or "string".
NoValue == [t |-> "undefined", v |-> 0]

Num(n) == [t |-> "number", v |-> n]

validConditions ==
    {"temperature_above", "temperature_below", "rain", "snow", "thunderstorm", "clear"}

\* validateRule with the limits -50 and 60 themselves rejected
validateRuleExclusive(rule) ==
    IF rule.condition \notin validConditions
    THEN Err("Invalid notification condition")
    ELSE IF rule.condition \in {"temperature_above", "temperature_below"}
    THEN IF rule.value.t \in {"undefined", "null"}
         THEN Err("Temperature condition requires a value")
         ELSE IF rule.value.t # "number" \/ rule.value.v <= -50 \/ rule.value.v >= 60
         THEN Err("Temperature value must be between -50 and 60 degrees Celsius")
         ELSE Ok(TRUE)
    ELSE Ok(TRUE)

\* Notification.validateRule
validateRule(rule) ==
    IF rule.condition \notin validConditions
    THEN Err("Invalid notification condition")
    ELSE IF rule.condition \in {"temperature_above", "temperature_below"}
    THEN IF rule.value.t \in {"undefined", "null"}
         THEN Err("Temperature condition requires a value")
         ELSE IF rule.value.t # "number" \/ rule.value.v < -50 \/ rule.value.v > 60
         THEN Err("Temperature value must be between -50 and 60 degrees Celsius")
         ELSE Ok(TRUE)
    ELSE Ok(TRUE)

\* new Notification(location, rules) at time t with random token r.
\* location and rules are <<>> when null/undefined, else <<the value>>.
Notification(location, rules, t, r) ==
    IF location = <<>> THEN Err("Location is required for notification")
    ELSE IF rules = <<>> \/ rules[1] = <<>>
         THEN Err("At least one notification rule is required")
    ELSE IF \E i \in 1..Len(rules[1]) : ~validateRule(rules[1][i]).ok
         THEN validateRule(rules[1][CHOOSE i \in 1..Len(rules[1]) :
                               /\ ~validateRule(rules[1][i]).ok
                               /\ \A j \in 1..(i - 1) : validateRule(rules[1][j]).ok])
    ELSE Ok([id        |-> <<location[1].id, t, r>>,
             location  |-> location[1],
             rules     |-> rules[1],
             isActive  |-> TRUE,
             createdAt |-> t])

\* A weather payload is
\*   [null |-> BOOLEAN, main |-> <<>> or <<[temp |-> Int]>>,
\*    weather |-> <<>> or <<sequence of condition "main" strings>>,
\*    rain |-> BOOLEAN, snow |-> BOOLEAN]
\* weatherData.weather.some(w => w.main.toLowerCase() === kw)
someMain(w, kw) ==
    \E i \in 1..Len(w.weather[1]) : toLowerCase(w.weather[1][i]) = kw

\* rule.value ?? 0
valueOrZero(rule) == IF rule.value.t \in {"undefined", "null"} THEN 0 ELSE rule.value.v

\* checkSingleRule with non-strict temperature comparisons
checkSingleRuleNonStrict(rule, w) ==
    CASE rule.condition = "temperature_above" ->
            IF w.null \/ w.main = <<>> THEN Err("TypeError")
            ELSE Ok(w.main[1].temp >= valueOrZero(rule))
      [] rule.condition = "temperature_below" ->
            IF w.null \/ w.main = <<>> THEN Err("TypeError")
            ELSE Ok(w.main[1].temp <= valueOrZero(rule))
      [] rule.condition = "rain" ->
            IF w.null \/ w.weather = <<>> THEN Err("TypeError")
            ELSE Ok(someMain(w, <<"r","a","i","n">>) \/ w.rain)
      [] rule.condition = "snow" ->
            IF w.null \/ w.weather = <<>> THEN Err("TypeError")
            ELSE Ok(someMain(w, <<"s","n","o","w">>) \/ w.snow)
      [] rule.condition = "thunderstorm" ->
            IF w.null \/ w.weather = <<>> THEN Err("TypeError")
            ELSE Ok(someMain(w, <<"t","h","u","n","d","e","r","s","t","o","r","m">>))
      [] rule.condition = "clear" ->
            IF w.null \/ w.weather = <<>> THEN Err("TypeError")
            ELSE Ok(someMain(w, <<"c","l","e","a","r">>))
      [] OTHER -> Ok(FALSE)

\* Notification.checkSingleRule; a property read on null/undefined throws
checkSingleRule(rule, w) ==
    CASE rule.condition = "temperature_above" ->
            IF w.null \/ w.main = <<>> THEN Err("TypeError")
            ELSE Ok(w.main[1].temp > valueOrZero(rule))
      [] rule.condition = "temperature_below" ->
            IF w.null \/ w.main = <<>> THEN Err("TypeError")
            ELSE Ok(w.main[1].temp < valueOrZero(rule))
      [] rule.condition = "rain" ->
            IF w.null \/ w.weather = <<>> THEN Err("TypeError")
            ELSE Ok(someMain(w, <<"r","a","i","n">>) \/ w.rain)
      [] rule.condition = "snow" ->
            IF w.null \/ w.weather = <<>> THEN Err("TypeError")
            ELSE Ok(someMain(w, <<"s","n","o","w">>) \/ w.snow)
      [] rule.condition = "thunderstorm" ->
            IF w.null \/ w.weather = <<>> THEN Err("TypeError")
            ELSE Ok(someMain(w, <<"t","h","u","n","d","e","r","s","t","o","r","m">>))
      [] rule.condition = "clear" ->
            IF w.null \/ w.weather = <<>> THEN Err("TypeError")
            ELSE Ok(someMain(w, <<"c","l","e","a","r">>))
      [] OTHER -> Ok(FALSE)

RECURSIVE anyRuleMatches(_, _)
\* the for-loop of matchesCondition: first true wins, a throw leaves the loop
anyRuleMatches(rules, w) ==
    IF rules = <<>> THEN Ok(FALSE)
    ELSE LET c == checkSingleRule(Head(rules), w)
         IN  IF ~c.ok THEN c
             ELSE IF c.val THEN Ok(TRUE)
             ELSE anyRuleMatches(Tail(rules), w)

\* matchesCondition without the early return for an inactive rule
matchesConditionIgnoringActive(n, w) ==
    LET m == anyRuleMatches(n.rules, w)
    IN  IF m.ok THEN m.val ELSE FALSE

\* Notification.matchesCondition
matchesCondition(n, w) ==
    IF ~n.isActive THEN FALSE
    ELSE LET m == anyRuleMatches(n.rules, w)
         IN  IF m.ok THEN m.val ELSE FALSE

\* the sentences of getNotificationMessage: the template, and what fills its
\* ${temp}, ${rule.value} and ${this._location.getFullName()} places
Sentence(template, temp, value, place) ==
    [template |-> template, temp |-> temp, value |-> value, place |-> place]

\* the switch of getNotificationMessage for a clause that holds; payload
\* temperatures are whole degrees, which Math.round leaves as they are
sentenceOf(rule, w, place) ==
    CASE rule.condition = "temperature_above" ->
            Sentence("Temperature is now ${temp}°C, above ${rule.value}°C in ${fullName}",
                     <<w.main[1].temp>>, <<rule.value>>, place)
      [] rule.condition = "temperature_below" ->
            Sentence("Temperature is now ${temp}°C, below ${rule.value}°C in ${fullName}",
                     <<w.main[1].temp>>, <<rule.value>>, place)
      [] rule.condition = "rain" ->
            Sentence("It's currently raining in ${fullName}", <<>>, <<>>, place)
      [] rule.condition = "snow" ->
            Sentence("It's currently snowing in ${fullName}", <<>>, <<>>, place)
      [] rule.condition = "thunderstorm" ->
            Sentence("There's a thunderstorm in ${fullName}", <<>>, <<>>, place)
      [] rule.condition = "clear" ->
            Sentence("The sky is clear in ${fullName}", <<>>, <<>>, place)

RECURSIVE messageOfFirstMatch(_, _, _)
\* the for-loop of getNotificationMessage and the return after it
messageOfFirstMatch(rules, w, place) ==
    IF rules = <<>> THEN Ok(Sentence("Weather update for ${fullName}", <<>>, <<>>, place))
    ELSE LET c == checkSingleRule(Head(rules), w)
         IN  IF ~c.ok THEN c
             ELSE IF c.val THEN Ok(sentenceOf(Head(rules), w, place))
             ELSE messageOfFirstMatch(Tail(rules), w, place)

\* getNotificationMessage going through the clauses from the last to the first
getNotificationMessageBackwards(n, w) ==
    IF w.null \/ w.main = <<>> \/ w.weather = <<>> THEN Err("TypeError")
    ELSE messageOfFirstMatch([i \in 1..Len(n.rules) |-> n.rules[Len(n.rules) + 1 - i]],
                             w, getFullName(n.location))

\* Notification.getNotificationMessage; reading main.temp or weather[0] of a
\* payload without that block throws
getNotificationMessage(n, w) ==
    IF w.null \/ w.main = <<>> \/ w.weather = <<>> THEN Err("TypeError")
    ELSE messageOfFirstMatch(n.rules, w, getFullName(n.location))

\* Notification.activate
activate(n) == [n EXCEPT !.isActive = TRUE]

\* Notification.deactivate
deactivate(n) == [n EXCEPT !.isActive = FALSE]

\* toggle that always switches the rule off
toggleToInactive(n) == [n EXCEPT !.isActive = FALSE]

\* Notification.toggle
toggle(n) == [n EXCEPT !.isActive = ~n.isActive]

\* Notification.toJSON
NotificationToJSON(n) ==
    [id        |-> n.id,
     location  |-> LocationToJSON(n.location),
     rules     |-> n.rules,
     isActive  |-> n.isActive,
     createdAt |-> n.createdAt]

\* Notification.fromData at time t with random token r
NotificationFromData(d, t, r) ==
    LET location == LocationFromData(d.location, t)
    IN  IF ~location.ok THEN location
        ELSE LET notification == Notification(<<location.val>>, <<d.rules>>, t, r)
             IN  IF ~notification.ok THEN notification
                 ELSE Ok([notification.val EXCEPT !.isActive = d.isActive])

---------------------------------------------------------------------------
(* Inputs *)

London == [name |-> <<"L","o","n">>, country |-> <<"G","B">>, lat |-> 5150740, lon |-> -12780]

\* other spelling and raw coordinates, same 4-decimal coordinates as London
Londres == [name |-> <<" ","L","d","r"," ">>, country |-> <<"G","B">>,
            lat |-> 5150743, lon |-> -12776]

Paris == [name |-> <<"P","a","r">>, country |-> <<"F","R">>, lat |-> 4885660, lon |-> 235220]

LocationArgs == {London, Londres, Paris}

Rule(c, v) == [condition |-> c, value |-> v]

RuleLists ==
    { <<Rule("temperature_above", Num(20))>>,
      <<Rule("temperature_below", Num(20))>>,
      <<Rule("rain", NoValue)>>,
      <<Rule("snow", NoValue)>>,
      <<Rule("thunderstorm", NoValue)>>,
      <<Rule("clear", NoValue)>>,
      <<Rule("temperature_above", Num(20)), Rule("rain", NoValue)>>,
      <<Rule("rain", NoValue), Rule("temperature_above", Num(20))>>,
      <<Rule("temperature_below", Num(20)), Rule("clear", NoValue), Rule("snow", NoValue)>> }

\* Values a clause can carry besides an in-range number
StringValue == [t |-> "string", v |-> 30]

NullValue == [t |-> "null", v |-> 0]

\* Clause lists around the limits of validateRule
EdgeRuleLists ==
    { <<Rule("temperature_above", Num(-50))>>,
      <<Rule("temperature_below", Num(60))>>,
      <<Rule("temperature_below", Num(-51))>>,
      <<Rule("temperature_above", Num(61))>>,
      <<Rule("temperature_above", NoValue)>>,
      <<Rule("temperature_below", NullValue)>>,
      <<Rule("temperature_above", StringValue)>>,
      <<Rule("invalid_condition", NoValue)>>,
      <<Rule("invalid_condition", Num(20))>>,
      <<Rule("rain", Num(70))>>,
      <<Rule("rain", NoValue), Rule("temperature_above", Num(61))>>,
      <<Rule("clear", NoValue), Rule("fog", NoValue)>> }

\* The rules argument of the constructor: null, [], or an array of clauses
RulesArgs == {<<>>, << <<>> >>} \cup {<<rules>> : rules \in EdgeRuleLists}

Temps == {15, 20, 25}

ConditionLists ==
    { <<>>,
      << <<"C","l","e","a","r">> >>,
      << <<"R","a","i","n">> >>,
      << <<"C","l","o","u","d","s">>, <<"S","N","O","W">> >>,
      << <<"T","h","u","n","d","e","r","s","t","o","r","m">> >>,
      << <<"D","r","i","z","z","l","e">> >> }

Payload(t, cl, r, s) ==
    [null |-> FALSE, main |-> <<[temp |-> t]>>, weather |-> <<cl>>, rain |-> r, snow |-> s]

\* payloads with a metrics block and a condition list; some carry the
\* optional rain / snow precipitation field
WellFormedPayloads ==
    { Payload(t, cl, FALSE, FALSE) : t \in Temps, cl \in ConditionLists }
    \cup { Payload(20, << <<"C","l","e","a","r">> >>, r, s) : r \in BOOLEAN, s \in BOOLEAN }
    \cup { Payload(25, <<>>, TRUE, FALSE), Payload(15, <<>>, FALSE, TRUE) }

MalformedPayloads ==
    { [null |-> TRUE, main |-> <<>>, weather |-> <<>>, rain |-> FALSE, snow |-> FALSE],
      [null |-> FALSE, main |-> <<>>, weather |-> << << <<"R","a","i","n">> >> >>,
       rain |-> FALSE, snow |-> FALSE],
      [null |-> FALSE, main |-> <<[temp |-> 25]>>, weather |-> <<>>, rain |-> TRUE, snow |-> FALSE],
      [null |-> FALSE, main |-> <<>>, weather |-> <<>>, rain |-> FALSE, snow |-> FALSE] }

Payloads == WellFormedPayloads \cup MalformedPayloads

---------------------------------------------------------------------------
(* State *)

NoCall == [op |-> "none", arg |-> <<>>, ret |-> <<>>, pre |-> <<>>]

NoStorageCall ==
    [op |-> "none", arg |-> <<>>, ret |-> <<>>,
     pre |-> [fav |-> [kind |-> "absent", val |-> <<>>],
              notif |-> [kind |-> "absent", val |-> <<>>],
              issued |-> <<>>, getFault |-> FALSE, setFault |-> FALSE, now |-> 0]]

Init ==
    /\ favItem = [kind |-> "absent", val |-> <<>>]
    /\ notifItem = [kind |-> "absent", val |-> <<>>]
    /\ getFault = FALSE
    /\ setFault = FALSE
    /\ issued = <<>>
    /\ last = NoStorageCall
    /\ now = 0
    /\ rnd = 0
    /\ notif = <<>>
    /\ out = NoCall
    /\ engine = [notifications |-> <<>>, isChecking |-> FALSE, checkInterval |-> <<>>,
                 lastCheckedTimes |-> <<>>, timers |-> {}, lifecycle |-> "constructed"]
    /\ passes = <<>>
    /\ events = <<>>
    /\ app = [currentWeather |-> <<>>, currentForecast |-> <<>>, currentLocation |-> <<>>,
              notificationsList |-> <<>>]

\* time passes between two calls
Tick ==
    /\ now < MaxNow
    /\ now' = now + 1
    /\ UNCHANGED <<storeVars, rnd, ruleVars, pollVars, app>>

---------------------------------------------------------------------------
(* The Notification entity: one object, constructed and then used *)

\* new Location(...) then new Notification(location, rules); the caller may
\* pass null for the location (hasLocation = FALSE) and null for the rules
\* (rules = <<>>, else <<the array>>)
Create(a, hasLocation, rules) ==
    /\ rnd < MaxTokens
    /\ LET l == Location(a.name, a.country, a.lat, a.lon, now)
           location == IF hasLocation THEN <<l.val>> ELSE <<>>
           n == Notification(location, rules, now, rnd + 1)
       IN  /\ l.ok
           /\ notif' = IF n.ok THEN <<n.val>> ELSE notif
           /\ out' = [op |-> "new", arg |-> [location |-> location, rules |-> rules],
                      ret |-> n, pre |-> notif]
    /\ rnd' = rnd + 1
    /\ UNCHANGED <<storeVars, now, pollVars, app>>

Activate ==
    /\ notif # <<>>
    /\ notif' = <<activate(notif[1])>>
    /\ out' = [op |-> "activate", arg |-> <<>>, ret |-> <<>>, pre |-> notif[1]]
    /\ UNCHANGED <<storeVars, now, pollVars, app, rnd>>

Deactivate ==
    /\ notif # <<>>
    /\ notif' = <<deactivate(notif[1])>>
    /\ out' = [op |-> "deactivate", arg |-> <<>>, ret |-> <<>>, pre |-> notif[1]]
    /\ UNCHANGED <<storeVars, now, pollVars, app, rnd>>

Toggle ==
    /\ notif # <<>>
    /\ notif' = <<toggle(notif[1])>>
    /\ out' = [op |-> "toggle", arg |-> <<>>, ret |-> <<>>, pre |-> notif[1]]
    /\ UNCHANGED <<storeVars, now, pollVars, app, rnd>>

\* notification.matchesCondition(weatherData)
Match(w) ==
    /\ notif # <<>>
    /\ out' = [op |-> "matchesCondition", arg |-> w,
               ret |-> matchesCondition(notif[1], w), pre |-> notif[1]]
    /\ UNCHANGED <<storeVars, now, pollVars, app, rnd, notif>>

\* notification.getNotificationMessage(w)
Message(w) ==
    /\ notif # <<>>
    /\ out' = [op |-> "getNotificationMessage", arg |-> w,
               ret |-> getNotificationMessage(notif[1], w), pre |-> notif[1]]
    /\ UNCHANGED <<storeVars, now, pollVars, app, rnd, notif>>

\* Notification.fromData(notification.toJSON())
Restore ==
    /\ notif # <<>>
    /\ rnd < MaxTokens
    /\ out' = [op |-> "fromData", arg |-> NotificationToJSON(notif[1]),
               ret |-> NotificationFromData(NotificationToJSON(notif[1]), now, rnd + 1),
               pre |-> notif[1]]
    /\ rnd' = rnd + 1
    /\ UNCHANGED <<storeVars, now, pollVars, app, notif>>

\* Location.fromData(location.toJSON())
RestoreLocation ==
    /\ notif # <<>>
    /\ out' = [op |-> "Location.fromData", arg |-> LocationToJSON(notif[1].location),
               ret |-> LocationFromData(LocationToJSON(notif[1].location), now),
               pre |-> notif[1]]
    /\ UNCHANGED <<storeVars, now, pollVars, app, rnd, notif>>

NextRule ==
    \/ Tick
    \/ \E a \in LocationArgs, rules \in RuleLists : Create(a, TRUE, <<rules>>)
    \/ \E hasLocation \in BOOLEAN, rules \in RulesArgs : Create(London, hasLocation, rules)
    \/ Activate
    \/ Deactivate
    \/ Toggle
    \/ \E w \in Payloads : Match(w)
    \/ \E w \in Payloads : Message(w)
    \/ Restore
    \/ RestoreLocation

SpecRule == Init /\ [][NextRule]_vars

---------------------------------------------------------------------------
(* The Location entity: constructor calls *)

NameArgs == { <<>>, <<" ">>, <<" ","L","o"," ">>, <<"L","o">> }

CountryArgs == { <<>>, <<" "," ">>, <<"G","B"," ">> }

\* raw latitudes (1e-5 degrees): just outside, at, and inside the limits
LatArgs == { -9000001, -9000000, -5150748, 5150743, 9000000, 9000001 }

LonArgs == { -18000001, -18000000, -12786, 12344, 18000000, 18000001 }

\* new Location(name, country, lat, lon)
NewLocation(name, country, lat, lon) ==
    /\ out' = [op |-> "Location",
               arg |-> [name |-> name, country |-> country, lat |-> lat, lon |-> lon],
               ret |-> Location(name, country, lat, lon, now), pre |-> <<>>]
    /\ UNCHANGED <<storeVars, now, pollVars, app, rnd, notif>>

\* Locations of the distance and equality calls: the cities of the tests,
\* a second spelling of London whose coordinates round to London's,
\* a pair of antipodes, points on the equator and at the pole
Places ==
    { [name |-> <<"L","o","n">>, country |-> <<"G","B">>, lat |-> 5150740, lon |-> -12780],
      [name |-> <<"L","d","r">>, country |-> <<"U","K">>, lat |-> 5150743, lon |-> -12776],
      [name |-> <<"P","a","r">>, country |-> <<"F","R">>, lat |-> 4885660, lon |-> 235220],
      [name |-> <<"S","y","d">>, country |-> <<"A","U">>, lat |-> -3386880, lon |-> 15120930],
      [name |-> <<"A">>, country |-> <<"X">>, lat |-> 1200000, lon |-> -17550000],
      [name |-> <<"B">>, country |-> <<"X">>, lat |-> -1200000, lon |-> 450000],
      [name |-> <<"O">>, country |-> <<"X">>, lat |-> 0, lon |-> 0],
      [name |-> <<"O">>, country |-> <<"X">>, lat |-> 150000, lon |-> 0],
      [name |-> <<"O">>, country |-> <<"X">>, lat |-> 100000, lon |-> 500000],
      [name |-> <<"O">>, country |-> <<"X">>, lat |-> -3, lon |-> 3],
      [name |-> <<"N">>, country |-> <<"X">>, lat |-> 9000000, lon |-> 0],
      [name |-> <<"L","o","n">>, country |-> <<"G","B">>, lat |-> -5150740, lon |-> -12780] }

\* new Location(...) of a place, at time t
Place(a, t) == Location(a.name, a.country, a.lat, a.lon, t).val

\* new Location(a).distanceTo(new Location(b))
DistanceTo(a, b) ==
    /\ out' = [op |-> "distanceTo", arg |-> [this |-> Place(a, 0), other |-> Place(b, now)],
               ret |-> distanceTo(Place(a, 0), Place(b, now)), pre |-> <<>>]
    /\ UNCHANGED <<storeVars, now, pollVars, app, rnd, notif>>

\* new Location(a).equals(new Location(b)), the ids compared as strings
Equals(a, b) ==
    /\ LET this == Place(a, 0)
           other == Place(b, now)
       IN  out' = [op |-> "equals",
                   arg |-> [a |-> a, b |-> b, this |-> this, other |-> other],
                   ret |-> LocationEquals([this EXCEPT !.id = idString(this)],
                                          [other EXCEPT !.id = idString(other)]),
                   pre |-> <<>>]
    /\ UNCHANGED <<storeVars, now, pollVars, app, rnd, notif>>

NextLocation ==
    \/ Tick
    \/ \E name \in NameArgs, country \in CountryArgs, lat \in LatArgs, lon \in LonArgs :
          NewLocation(name, country, lat, lon)
    \/ \E a \in Places, b \in Places : DistanceTo(a, b)
    \/ \E a \in Places, b \in Places : Equals(a, b)

SpecLocation == Init /\ [][NextLocation]_vars

---------------------------------------------------------------------------
(* models/Weather.ts: class Forecast *)

\* Number of calendar days the forecast inputs span
MaxDays == 6

\* An instant (item.dt, new Date()) is an integer number of hours since the
\* epoch, tz the runtime's offset from UTC in hours.
\* new Date(dt * 1000).toDateString(): the local calendar day
toDateString(dt, tz) == (dt + tz) \div 24

\* new Date(dt * 1000).getHours()
getHours(dt, tz) == (dt + tz) % 24

\* new Date(dateString): local midnight of that day
DateFromString(d, tz) == d * 24 - tz

\* dailyForecasts.length >= 6
limitReachedAtSix(dailyForecasts) == Len(dailyForecasts) >= 6

\* dailyForecasts.length >= 5
limitReached(dailyForecasts) == Len(dailyForecasts) >= 5

RECURSIVE dailyLoop(_, _, _, _, _)
\* the for-loop of getDailyForecast over the remaining items
dailyLoop(items, dailyForecasts, processedDates, nowH, tz) ==
    IF items = <<>> THEN dailyForecasts
    ELSE LET item == Head(items)
             dateString == toDateString(item.dt, tz)
             hour == getHours(item.dt, tz)
         IN  IF /\ Len(dailyForecasts) = 0
                /\ dateString = toDateString(nowH, tz)
                /\ hour < 6
             THEN dailyLoop(Tail(items), dailyForecasts, processedDates, nowH, tz)
             ELSE LET take ==
                        /\ dateString \notin processedDates
                        /\ \/ (hour >= 9 /\ hour <= 18)
                           \/ Cardinality(processedDates) = 0
                           \/ ~\E processedDate \in processedDates :
                                 toDateString(DateFromString(processedDate, tz), tz)
                                     = dateString
                      daily2 == IF take THEN Append(dailyForecasts, item)
                                ELSE dailyForecasts
                      dates2 == IF take THEN processedDates \cup {dateString}
                                ELSE processedDates
                  IN  IF limitReached(daily2) THEN daily2
                      ELSE dailyLoop(Tail(items), daily2, dates2, nowH, tz)

\* new Forecast({list, city}).getDailyForecast() at instant nowH
getDailyForecast(list, nowH, tz) ==
    IF list = <<>> THEN Err("Invalid forecast data provided")
    ELSE Ok(dailyLoop(list, <<>>, {}, nowH, tz))

\* UTC hours of one day's entries: none, early and midday, late only,
\* midday and afternoon
DayPatterns == { <<>>, <<3, 12>>, <<21>>, <<12, 15>> }

RECURSIVE Entries(_, _)
\* the entries of days 1..d, day k carrying the hours pat[k], in time order
Entries(pat, d) ==
    IF d = 0 THEN <<>>
    ELSE Entries(pat, d - 1) \o
         [i \in 1..Len(pat[d]) |-> [dt |-> 24 * d + pat[d][i], temp |-> 10 + d]]

Reverse(s) == [i \in 1..Len(s) |-> s[Len(s) + 1 - i]]

\* the instants at which the forecast is read: the day before the first
\* entry's day, and during day 1
NowArgs == {10, 34}

TzArgs == {0, 3}

\* new Forecast(data).getDailyForecast(), one call per run
GetDailyForecast(pat, reversed, nowH, tz) ==
    /\ out = NoCall
    /\ LET list == IF reversed THEN Reverse(Entries(pat, MaxDays))
                   ELSE Entries(pat, MaxDays)
       IN  out' = [op |-> "getDailyForecast",
                   arg |-> [list |-> list, reversed |-> reversed, now |-> nowH, tz |-> tz],
                   ret |-> getDailyForecast(list, nowH, tz), pre |-> <<>>]
    /\ UNCHANGED <<storeVars, now, pollVars, app, rnd, notif>>

NextForecast ==
    /\ out = NoCall
    /\ \E pat \in [1..MaxDays -> DayPatterns], reversed \in BOOLEAN,
          nowH \in NowArgs, tz \in TzArgs :
           GetDailyForecast(pat, reversed, nowH, tz)

SpecForecast == Init /\ [][NextForecast]_vars

---------------------------------------------------------------------------
(* services/WeatherService.ts: one request *)

\* new WeatherApiError(message, code); code is <<>> when not given
WeatherApiError(message, code) ==
    Err([name |-> "WeatherApiError", message |-> message, code |-> code])

\* new NetworkError(message)
NetworkError(message) == Err([name |-> "NetworkError", message |-> message])

\* What fetch does: it resolves with a response [status, body], is aborted
\* by the timeout, or rejects. A body is [json |-> BOOLEAN, message |-> <<>>
\* or <<text>>, data |-> payload]: whether response.json() resolves, and the
\* object's message field.
\* Response.ok
responseOk(response) == response.status >= 200 /\ response.status <= 299

\* WeatherService.fetchWithTimeout
fetchWithTimeout(f) ==
    CASE f.kind = "response" -> Ok(f.response)
      [] f.kind = "abort" ->
            NetworkError("Request timeout - please check your internet connection")
      [] OTHER -> NetworkError("Network error - please check your internet connection")

\* WeatherService.handleResponse
handleResponse(response) ==
    IF ~responseOk(response)
    THEN LET errorMessage ==
                 IF response.body.json /\ response.body.message # <<>>
                 THEN response.body.message[1]
                 ELSE <<"HTTP Error: ", response.status>>
         IN  CASE response.status = 401 -> WeatherApiError("Invalid API key", <<401>>)
               [] response.status = 404 -> WeatherApiError("Location not found", <<404>>)
               [] response.status = 429 ->
                     WeatherApiError("API rate limit exceeded", <<429>>)
               [] response.status \in {500, 502, 503} ->
                     WeatherApiError("Weather service temporarily unavailable",
                                     <<response.status>>)
               [] OTHER -> WeatherApiError(errorMessage, <<response.status>>)
    ELSE IF response.body.json THEN Ok(response.body.data)
    ELSE WeatherApiError("Invalid response format from weather service", <<>>)

\* fetchWithTimeout then handleResponse, as every get... method chains them
request(f) ==
    LET response == fetchWithTimeout(f)
    IN  IF response.ok THEN handleResponse(response.val) ELSE response

Statuses ==
    {200, 201, 204, 304, 400, 401, 403, 404, 408, 418, 422, 429,
     499, 500, 501, 502, 503, 504, 505, 599}

Bodies ==
    { [json |-> FALSE, message |-> <<>>, data |-> "none"],
      [json |-> TRUE, message |-> <<>>, data |-> "payload"],
      [json |-> TRUE, message |-> <<"city not found">>, data |-> "payload"] }

FetchOutcomes ==
    { [kind |-> "response", response |-> [status |-> st, body |-> b]] :
          st \in Statuses, b \in Bodies }
    \cup { [kind |-> "abort", response |-> <<>>], [kind |-> "reject", response |-> <<>>] }

Endpoints == {"weather", "forecast"}

\* getWeatherBy... / getForecastBy... up to the parsed payload
Request(endpoint, f) ==
    /\ out' = [op |-> "request", arg |-> [endpoint |-> endpoint, fetch |-> f],
               ret |-> request(f), pre |-> <<>>]
    /\ UNCHANGED <<storeVars, now, pollVars, app, rnd, notif>>

NextService ==
    \/ Tick
    \/ \E endpoint \in Endpoints, f \in FetchOutcomes : Request(endpoint, f)

SpecService == Init /\ [][NextService]_vars

---------------------------------------------------------------------------
(* app/NotificationManager.ts: the polling engine *)

\* Executions of checkNotifications started in one run
MaxPasses == 2

\* Time is counted in hours. MIN_NOTIFICATION_INTERVAL_MS = 60 * 60 * 1000
MIN_NOTIFICATION_INTERVAL == 1

\* Date.now() of the run's first instant: any instant later than
\* 1970-01-01T01:00, so that an unset last-checked time (0) is not recent
StartOfRun == 5

\* Date.now()
dateNow == StartOfRun + now

\* `${location.lat},${location.lon}`
locationKey(location) == <<location.lat, location.lon>>

\* this.lastCheckedTimes.get(locationKey) || 0
lastChecked(times, key) == IF key \in DOMAIN times THEN times[key] ELSE 0

\* this.lastCheckedTimes.set(locationKey, t)
setLastChecked(times, key, t) ==
    [k \in DOMAIN times \cup {key} |-> IF k = key THEN t ELSE times[k]]

\* index of the rule a pass turns to after a fetch, a failed fetch ending the pass
nextIndexAbortOnFailure(pass, result) ==
    IF result.ok THEN pass.idx + 1 ELSE Len(pass.active) + 1

\* index of the rule a pass turns to after the fetch for pass.idx has
\* completed: both try/catch blocks let the for-loop go on
nextIndex(pass, result) == pass.idx + 1

RECURSIVE runPass(_, _, _)
\* The for-loop of checkNotifications from pass.idx on, run at instant t up
\* to its next fetch: a rule whose location was notified recently is
\* skipped, the first other rule has its fetch issued and the pass awaits it.
\* pass.log holds, per rule reached, what was done with it.
runPass(pass, times, t) ==
    IF pass.idx > Len(pass.active) THEN [pass EXCEPT !.pc = "done"]
    ELSE LET key == locationKey(pass.active[pass.idx].location)
             entry == [at |-> t, lastChecked |-> lastChecked(times, key)]
         IN  IF t - lastChecked(times, key) < MIN_NOTIFICATION_INTERVAL
             THEN runPass([pass EXCEPT
                             !.idx = @ + 1,
                             !.log = Append(@, [kind |-> "skipped"] @@ entry)],
                          times, t)
             ELSE [pass EXCEPT !.pc = "awaiting", !.now = t,
                               !.log = Append(@, [kind |-> "fetch"] @@ entry)]

\* checkNotifications without the isChecking guard
checkNotificationsUnguarded(e, t) ==
    IF Len(e.notifications) = 0 THEN <<>>
    ELSE <<runPass([active |-> SelectSeq(e.notifications, LAMBDA n : n.isActive),
                    idx |-> 1, now |-> t, pc |-> "running", log |-> <<>>],
                   e.lastCheckedTimes, t)>>

\* checkNotifications(): <<>> when it returns at once, else <<the pass>>
checkNotifications(e, t) ==
    IF ~e.isChecking \/ Len(e.notifications) = 0 THEN <<>>
    ELSE <<runPass([active |-> SelectSeq(e.notifications, LAMBDA n : n.isActive),
                    idx |-> 1, now |-> t, pc |-> "running", log |-> <<>>],
                   e.lastCheckedTimes, t)>>

\* setInterval: a fresh timer handle
newTimer(timers) == CHOOSE h \in 1..(Cardinality(timers) + 1) : h \notin timers

PollLondon == Location(London.name, London.country, London.lat, London.lon, 0).val

PollParis == Location(Paris.name, Paris.country, Paris.lat, Paris.lon, 0).val

\* rules as the application hands them to the engine
RainInLondon == Notification(<<PollLondon>>, << <<Rule("rain", NoValue)>> >>, 0, 1).val

HeatInLondon ==
    Notification(<<PollLondon>>, << <<Rule("temperature_above", Num(20))>> >>, 0, 2).val

RainInParis == Notification(<<PollParis>>, << <<Rule("rain", NoValue)>> >>, 0, 3).val

\* the rule the application adds to a loaded engine
HeatInParis ==
    Notification(<<PollParis>>, << <<Rule("temperature_above", Num(20))>> >>, 0, 4).val


\* two rules on one location; an inactive rule followed by one elsewhere
LoadArgs ==
    { <<RainInLondon, HeatInLondon>>,
      <<deactivate(RainInLondon), RainInParis>> }

\* what the provider answers: warm rain, cool clear sky, or nothing in time
PollFetchOutcomes ==
    { [kind |-> "response",
       response |-> [status |-> 200,
                     body |-> [json |-> TRUE, message |-> <<>>, data |-> w]]] :
          w \in { Payload(25, << <<"R","a","i","n">> >>, FALSE, FALSE),
                  Payload(15, << <<"C","l","e","a","r">> >>, FALSE, FALSE) } }
    \cup { [kind |-> "abort", response |-> <<>>] }

\* a call of checkNotifications() by the engine e
Spawn(e) ==
    /\ Len(passes \o checkNotifications(e, dateNow)) <= MaxPasses
    /\ passes' = passes \o checkNotifications(e, dateNow)

\* startChecking without the early return of a running engine
startCheckingUnguarded(e, t) ==
    LET h == newTimer(e.timers)
        checking == [e EXCEPT !.isChecking = TRUE]
    IN  [engine |-> [checking EXCEPT !.checkInterval = <<h>>,
                                     !.timers = @ \cup {h},
                                     !.lifecycle = "started"],
         spawned |-> checkNotifications(checking, t)]

\* startChecking() on the engine e at instant t: the engine afterwards and
\* the pass its initial check started, if any
startChecking(e, t) ==
    IF e.isChecking THEN [engine |-> e, spawned |-> <<>>]
    ELSE LET h == newTimer(e.timers)
             checking == [e EXCEPT !.isChecking = TRUE]
         IN  [engine |-> [checking EXCEPT !.checkInterval = <<h>>,
                                          !.timers = @ \cup {h},
                                          !.lifecycle = "started"],
              spawned |-> checkNotifications(checking, t)]

\* this.notifications.push(notification)
addNotification(notifications, notification) == Append(notifications, notification)

\* this.notifications.filter(n => n.id !== notificationId)
removeNotification(notifications, notificationId) ==
    SelectSeq(notifications, LAMBDA n : n.id # notificationId)

\* notificationManager.startChecking()
StartChecking ==
    /\ Len(passes \o startChecking(engine, dateNow).spawned) <= MaxPasses
    /\ passes' = passes \o startChecking(engine, dateNow).spawned
    /\ engine' = startChecking(engine, dateNow).engine
    /\ UNCHANGED <<storeVars, now, rnd, ruleVars, app, events>>

\* notificationManager.addNotification(notification); the application adds
\* a rule once, ids being unique
AddNotificationToEngine(notification) ==
    /\ \A k \in 1..Len(engine.notifications) : engine.notifications[k].id # notification.id
    /\ engine' = [engine EXCEPT !.notifications = addNotification(@, notification)]
    /\ UNCHANGED <<storeVars, now, rnd, ruleVars, app, passes, events>>

\* notificationManager.removeNotification(notificationId)
RemoveNotificationFromEngine(notificationId) ==
    /\ engine' = [engine EXCEPT !.notifications = removeNotification(@, notificationId)]
    /\ UNCHANGED <<storeVars, now, rnd, ruleVars, app, passes, events>>

\* notificationManager.stopChecking()
StopChecking ==
    /\ engine' = [engine EXCEPT
                     !.isChecking = FALSE,
                     !.checkInterval = <<>>,
                     !.timers = IF engine.checkInterval # <<>>
                                THEN @ \ {engine.checkInterval[1]} ELSE @,
                     !.lifecycle = "stopped"]
    /\ UNCHANGED <<storeVars, now, rnd, ruleVars, app, passes, events>>

\* a live interval timer fires its callback
IntervalTick ==
    /\ engine.timers # {}
    /\ Spawn(engine)
    /\ UNCHANGED <<storeVars, now, rnd, ruleVars, app, engine, events>>

\* notificationManager.loadNotifications(notifications)
LoadNotifications(notifications) ==
    /\ LET e == [engine EXCEPT !.notifications = notifications]
       IN  /\ engine' = e
           /\ IF e.isChecking THEN Spawn(e) ELSE UNCHANGED passes
    /\ UNCHANGED <<storeVars, now, rnd, ruleVars, app, events>>

\* notificationManager.forceCheck()
ForceCheck ==
    /\ Spawn(engine)
    /\ UNCHANGED <<storeVars, now, rnd, ruleVars, app, engine, events>>

\* The fetch awaited by pass i completes with outcome f, and
\* checkSingleNotification and the for-loop go on up to the next fetch
FetchCompletes(i, f) ==
    /\ i \in 1..Len(passes)
    /\ passes[i].pc = "awaiting"
    /\ \E weatherResult \in {request(f)} :
       \E triggered \in {weatherResult.ok
                          /\ matchesCondition(passes[i].active[passes[i].idx],
                                              weatherResult.val)} :
          LET pass == passes[i]
              notification == pass.active[pass.idx]
              key == locationKey(notification.location)
              times == IF triggered
                       THEN setLastChecked(engine.lastCheckedTimes, key, pass.now)
                       ELSE engine.lastCheckedTimes
              outcome == IF triggered THEN "triggered"
                         ELSE IF weatherResult.ok THEN "no match" ELSE "failed"
          IN  /\ engine' = [engine EXCEPT !.lastCheckedTimes = times]
              /\ events' = IF triggered
                           THEN Append(events,
                                       [id |-> notification.id, key |-> key,
                                        at |-> dateNow,
                                        isChecking |-> engine.isChecking,
                                        listed |-> \E k \in 1..Len(engine.notifications) :
                                            /\ engine.notifications[k].id = notification.id
                                            /\ engine.notifications[k].isActive])
                           ELSE events
              /\ \E resumed \in {[pass EXCEPT !.idx = nextIndex(pass, weatherResult),
                                              !.log[pass.idx] = [outcome |-> outcome] @@ @]} :
                    passes' = [passes EXCEPT ![i] = runPass(resumed, times, dateNow)]
    /\ UNCHANGED <<storeVars, now, rnd, ruleVars, app>>

\* An hour passes. A fetch is over within this.timeout (10 s), so no fetch
\* stays in flight from one hour to the next.
PollTick ==
    /\ \A i \in 1..Len(passes) : passes[i].pc # "awaiting"
    /\ Tick

NextPoll ==
    \/ PollTick
    \/ StartChecking
    \/ StopChecking
    \/ IntervalTick
    \/ \E notifications \in LoadArgs : LoadNotifications(notifications)
    \/ ForceCheck
    \/ \E i \in 1..Len(passes), f \in PollFetchOutcomes : FetchCompletes(i, f)

SpecPoll == Init /\ [][NextPoll]_vars

\* an interval timer whose callback does not call checkNotifications
IntervalTickIdle ==
    /\ engine.timers # {}
    /\ \A i \in 1..Len(passes) : passes[i].pc # "awaiting"
    /\ passes' = <<>>
    /\ events' = <<>>
    /\ UNCHANGED <<storeVars, now, rnd, ruleVars, app, engine>>

\* The interval timer fires when the passes before it are over: a fetch is
\* over within this.timeout (10 s), the interval is CHECK_INTERVAL_MS (5 min).
\* The record of finished passes and delivered events starts afresh.
IntervalTickAfterPasses ==
    /\ engine.timers # {}
    /\ \A i \in 1..Len(passes) : passes[i].pc # "awaiting"
    /\ passes' = checkNotifications(engine, dateNow)
    /\ events' = <<>>
    /\ UNCHANGED <<storeVars, now, rnd, ruleVars, app, engine>>

\* what the provider answers while the rule list changes: warm rain, or
\* nothing in time
ReloadFetchOutcomes ==
    {f \in PollFetchOutcomes :
        f.kind = "abort" \/ f.response.body.data = Payload(25, << <<"R","a","i","n">> >>, FALSE, FALSE)}

\* The engine under the application's changes of its rule list
NextReload ==
    \/ StartChecking
    \/ IntervalTickAfterPasses
    \/ \E notifications \in LoadArgs : LoadNotifications(notifications)
    \/ AddNotificationToEngine(HeatInParis)
    \/ RemoveNotificationFromEngine(HeatInParis.id)
    \/ \E i \in 1..MaxPasses, f \in ReloadFetchOutcomes : FetchCompletes(i, f)

\* setInterval keeps firing the callback of a live timer, and every fetch
\* completes: it answers, fails, or is aborted after this.timeout
ReloadFairness ==
    /\ WF_vars(IntervalTickAfterPasses)
    /\ WF_vars(\E i \in 1..MaxPasses, f \in ReloadFetchOutcomes : FetchCompletes(i, f))

SpecReload == Init /\ [][NextReload]_vars /\ ReloadFairness

---------------------------------------------------------------------------
(* services/StorageService.ts over localStorage *)

\* A localStorage item is [kind |-> "absent" | "corrupt" | "json", val |-> the
\* parsed array]; "absent" is getItem's null, "corrupt" a string JSON.parse
\* rejects.
Absent == [kind |-> "absent", val |-> <<>>]

Corrupt == [kind |-> "corrupt", val |-> <<>>]

\* JSON.parse(data)
parse(item) == IF item.kind = "json" THEN Ok(item.val) ELSE Err("SyntaxError")

\* JSON.stringify of LocationData[]: numbers and strings print exactly
stringifyLocations(data) == [kind |-> "json", val |-> data]

\* JSON.stringify of NotificationData[]: the Date becomes its ISO string
stringifyNotifications(data) ==
    [kind |-> "json",
     val  |-> [i \in 1..Len(data) |->
                  [data[i] EXCEPT !.createdAt = <<"iso", data[i].createdAt>>]]]

\* the try block of getFavorites
getFavoritesBody(item, gf, t) ==
    IF gf THEN Err("Storage error")
    ELSE IF item.kind = "absent" THEN Ok(<<>>)
    ELSE LET parsed == parse(item)
         IN  IF ~parsed.ok THEN parsed
             ELSE LET ls == [i \in 1..Len(parsed.val) |-> LocationFromData(parsed.val[i], t)]
                  IN  IF \E i \in 1..Len(ls) : ~ls[i].ok THEN Err("Error")
                      ELSE Ok([i \in 1..Len(ls) |-> ls[i].val])

\* getFavorites whose catch rethrows
getFavoritesRethrowing(item, gf, t) == getFavoritesBody(item, gf, t)

\* StorageService.getFavorites
getFavorites(item, gf, t) ==
    LET b == getFavoritesBody(item, gf, t)
    IN  IF b.ok THEN b ELSE Ok(<<>>)

\* the try block of getNotifications; the i-th reconstruction draws token r + i
getNotificationsBody(item, gf, t, r) ==
    IF gf THEN Err("Storage error")
    ELSE IF item.kind = "absent" THEN Ok(<<>>)
    ELSE LET parsed == parse(item)
         IN  IF ~parsed.ok THEN parsed
             ELSE LET ns == [i \in 1..Len(parsed.val) |->
                                NotificationFromData(parsed.val[i], t, r + i)]
                  IN  IF \E i \in 1..Len(ns) : ~ns[i].ok THEN Err("Error")
                      ELSE Ok([i \in 1..Len(ns) |-> ns[i].val])

\* StorageService.getNotifications
getNotifications(item, gf, t, r) ==
    LET b == getNotificationsBody(item, gf, t, r)
    IN  IF b.ok THEN b ELSE Ok(<<>>)

\* Math.random() tokens one getNotifications call draws
drawn(item, gf) == IF ~gf /\ item.kind = "json" THEN Len(item.val) ELSE 0

\* addFavorite that pushes without looking for the key
addFavoriteListNoDedupe(favorites, location) == Append(favorites, location)

\* addFavorite: the list to save, unchanged when the id is already there
addFavoriteList(favorites, location) ==
    IF \E i \in 1..Len(favorites) : favorites[i].id = location.id
    THEN favorites
    ELSE Append(favorites, location)

\* removeFavorite: favorites.filter(location => location.id !== locationId)
removeFavoriteList(favorites, locationId) ==
    SelectSeq(favorites, LAMBDA l : l.id # locationId)

\* removeNotification: notifications.filter(n => n.id !== notificationId)
removeNotificationList(notifications, notificationId) ==
    SelectSeq(notifications, LAMBDA n : n.id # notificationId)

\* notifications.findIndex(n => n.id === notificationId); 0 stands for -1
findIndex(notifications, notificationId) ==
    IF \E i \in 1..Len(notifications) : notifications[i].id = notificationId
    THEN CHOOSE i \in 1..Len(notifications) :
            /\ notifications[i].id = notificationId
            /\ \A j \in 1..(i - 1) : notifications[j].id # notificationId
    ELSE 0

\* saveFavorites: the item to write
saveFavorites(favorites) ==
    stringifyLocations([i \in 1..Len(favorites) |-> LocationToJSON(favorites[i])])

\* saveNotifications: the item to write
saveNotifications(notifications) ==
    stringifyNotifications(
        [i \in 1..Len(notifications) |-> NotificationToJSON(notifications[i])])

---------------------------------------------------------------------------
(* Inputs of the storage specification *)

StoreRuleLists ==
    { <<Rule("temperature_above", Num(20))>>,
      <<Rule("rain", NoValue)>> }

NewRuleLists ==
    { <<Rule("temperature_below", Num(20))>> }

LocationIds == {Location(a.name, a.country, a.lat, a.lon, 0).val.id : a \in LocationArgs}

NonExistentId == <<<<0, 0>>, 0, 0>>

\* the ids a caller can hold: of the objects addNotification returned, of
\* the records in the store, and one that was never issued
NotificationIds ==
    {issued[i].id : i \in 1..Len(issued)}
    \cup (IF notifItem.kind = "json"
          THEN {notifItem.val[i].id : i \in 1..Len(notifItem.val)} ELSE {})
    \cup {NonExistentId}

Pre == [fav |-> favItem, notif |-> notifItem, issued |-> issued,
        getFault |-> getFault, setFault |-> setFault, now |-> now]

Call(op, arg, ret) == [op |-> op, arg |-> arg, ret |-> ret, pre |-> Pre]

\* issued lists, position by position, the object addNotification returned
\* for each stored rule; a load that came back empty starts it afresh
Aligned(loaded) == IF loaded = <<>> THEN <<>> ELSE issued

---------------------------------------------------------------------------
(* StorageService operations *)

\* storageService.getFavorites()
GetFavorites ==
    /\ last' = Call("getFavorites", <<>>, getFavorites(favItem, getFault, now))
    /\ UNCHANGED <<favItem, notifItem, getFault, setFault, issued, now, pollVars, app, rnd, ruleVars>>

\* storageService.isFavorite(locationId)
IsFavorite(locationId) ==
    /\ LET favorites == getFavorites(favItem, getFault, now)
       IN  last' = Call("isFavorite", locationId,
                        IF favorites.ok
                        THEN Ok(\E i \in 1..Len(favorites.val) :
                                    favorites.val[i].id = locationId)
                        ELSE Ok(FALSE))
    /\ UNCHANGED <<favItem, notifItem, getFault, setFault, issued, now, pollVars, app, rnd, ruleVars>>

\* storageService.addFavorite(new Location(...))
AddFavorite(a) ==
    LET l == Location(a.name, a.country, a.lat, a.lon, now)
        favorites == getFavorites(favItem, getFault, now)
        toSave == addFavoriteList(favorites.val, l.val)
    IN  /\ l.ok
        /\ ~favorites.ok \/ Len(favorites.val) < MaxFavs \/ toSave = favorites.val
        /\ IF ~favorites.ok
           THEN /\ last' = Call("addFavorite", l.val, Err("Failed to save favorite location"))
                /\ UNCHANGED favItem
           ELSE IF toSave = favorites.val
           THEN /\ last' = Call("addFavorite", l.val, Ok(<<>>))
                /\ UNCHANGED favItem
           ELSE IF setFault
           THEN /\ last' = Call("addFavorite", l.val, Err("Failed to save favorite location"))
                /\ UNCHANGED favItem
           ELSE /\ last' = Call("addFavorite", l.val, Ok(<<>>))
                /\ favItem' = saveFavorites(toSave)
        /\ UNCHANGED <<notifItem, getFault, setFault, issued, now, pollVars, app, rnd, ruleVars>>

\* storageService.removeFavorite(locationId)
RemoveFavorite(locationId) ==
    LET favorites == getFavorites(favItem, getFault, now)
    IN  /\ IF ~favorites.ok \/ setFault
           THEN /\ last' = Call("removeFavorite", locationId,
                                Err("Failed to remove favorite location"))
                /\ UNCHANGED favItem
           ELSE /\ last' = Call("removeFavorite", locationId, Ok(<<>>))
                /\ favItem' = saveFavorites(removeFavoriteList(favorites.val, locationId))
        /\ UNCHANGED <<notifItem, getFault, setFault, issued, now, pollVars, app, rnd, ruleVars>>

\* storageService.getNotifications()
GetNotifications ==
    /\ rnd + drawn(notifItem, getFault) <= MaxRnd
    /\ last' = Call("getNotifications", <<>>, getNotifications(notifItem, getFault, now, rnd))
    /\ rnd' = rnd + drawn(notifItem, getFault)
    /\ UNCHANGED <<favItem, notifItem, getFault, setFault, issued, now, pollVars, app, ruleVars>>

\* storageService.getActiveNotifications()
GetActiveNotifications ==
    /\ rnd + drawn(notifItem, getFault) <= MaxRnd
    /\ LET notifications == getNotifications(notifItem, getFault, now, rnd)
       IN  last' = Call("getActiveNotifications", <<>>,
                        IF notifications.ok
                        THEN Ok(SelectSeq(notifications.val, LAMBDA n : n.isActive))
                        ELSE Ok(<<>>))
    /\ rnd' = rnd + drawn(notifItem, getFault)
    /\ UNCHANGED <<favItem, notifItem, getFault, setFault, issued, now, pollVars, app, ruleVars>>

\* storageService.addNotification(new Location(...), rules)
AddNotification(a, rules) ==
    LET l == Location(a.name, a.country, a.lat, a.lon, now)
        k == drawn(notifItem, getFault)
        notifications == getNotifications(notifItem, getFault, now, rnd)
        notification == Notification(<<l.val>>, <<rules>>, now, rnd + k + 1)
    IN  /\ l.ok
        /\ rnd + k + 1 <= MaxRnd
        /\ ~notifications.ok \/ Len(notifications.val) < MaxNotifs
        /\ IF ~notifications.ok \/ ~notification.ok \/ setFault
           THEN /\ last' = Call("addNotification", [location |-> l.val, rules |-> rules],
                                Err("Failed to save notification"))
                /\ UNCHANGED <<notifItem, issued>>
           ELSE /\ last' = Call("addNotification", [location |-> l.val, rules |-> rules],
                                notification)
                /\ notifItem' = saveNotifications(Append(notifications.val, notification.val))
                /\ issued' = Append(Aligned(notifications.val), notification.val)
        /\ rnd' = rnd + k + 1
        /\ UNCHANGED <<favItem, getFault, setFault, now, pollVars, app, ruleVars>>

\* storageService.removeNotification(notificationId)
RemoveNotification(notificationId) ==
    LET k == drawn(notifItem, getFault)
        notifications == getNotifications(notifItem, getFault, now, rnd)
        filtered == removeNotificationList(notifications.val, notificationId)
        kept == {i \in 1..Len(notifications.val) : notifications.val[i].id # notificationId}
    IN  /\ rnd + k <= MaxRnd
        /\ IF ~notifications.ok \/ setFault
           THEN /\ last' = Call("removeNotification", notificationId,
                                Err("Failed to remove notification"))
                /\ UNCHANGED <<notifItem, issued>>
           ELSE /\ last' = Call("removeNotification", notificationId, Ok(<<>>))
                /\ notifItem' = saveNotifications(filtered)
                /\ issued' = SelectSeq(Aligned(notifications.val),
                                       LAMBDA n : \E i \in kept : issued[i] = n)
        /\ rnd' = rnd + k
        /\ UNCHANGED <<favItem, getFault, setFault, now, pollVars, app, ruleVars>>

\* storageService.updateNotificationStatus(notificationId, isActive)
UpdateNotificationStatus(notificationId, isActive) ==
    LET k == drawn(notifItem, getFault)
        notifications == getNotifications(notifItem, getFault, now, rnd)
        i == findIndex(notifications.val, notificationId)
        updated == [notifications.val EXCEPT
                       ![i] = IF isActive THEN activate(@) ELSE deactivate(@)]
        arg == [id |-> notificationId, isActive |-> isActive]
    IN  /\ rnd + k <= MaxRnd
        /\ IF ~notifications.ok
           THEN /\ last' = Call("updateNotificationStatus", arg,
                                Err("Failed to update notification status"))
                /\ UNCHANGED <<notifItem, issued>>
           ELSE IF i = 0
           THEN /\ last' = Call("updateNotificationStatus", arg, Ok(<<>>))
                /\ UNCHANGED <<notifItem, issued>>
           ELSE IF setFault
           THEN /\ last' = Call("updateNotificationStatus", arg,
                                Err("Failed to update notification status"))
                /\ UNCHANGED <<notifItem, issued>>
           ELSE /\ last' = Call("updateNotificationStatus", arg, Ok(<<>>))
                /\ notifItem' = saveNotifications(updated)
                /\ issued' = Aligned(notifications.val)
        /\ rnd' = rnd + k
        /\ UNCHANGED <<favItem, getFault, setFault, now, pollVars, app, ruleVars>>

\* storageService.updateNotification(notificationId, rules)
UpdateNotification(notificationId, rules) ==
    LET k == drawn(notifItem, getFault)
        notifications == getNotifications(notifItem, getFault, now, rnd)
        i == findIndex(notifications.val, notificationId)
        old == notifications.val[i]
        fresh == Notification(<<old.location>>, <<rules>>, now, rnd + k + 1)
        newNotification == IF old.isActive THEN fresh.val ELSE deactivate(fresh.val)
        arg == [id |-> notificationId, rules |-> rules]
    IN  /\ rnd + k + 1 <= MaxRnd
        /\ IF ~notifications.ok \/ i = 0
           THEN /\ last' = Call("updateNotification", arg, Err("Failed to update notification"))
                /\ rnd' = rnd + k
                /\ UNCHANGED <<notifItem, issued>>
           ELSE IF ~fresh.ok \/ setFault
           THEN /\ last' = Call("updateNotification", arg, Err("Failed to update notification"))
                /\ rnd' = rnd + k + 1
                /\ UNCHANGED <<notifItem, issued>>
           ELSE /\ last' = Call("updateNotification", arg, Ok(<<>>))
                /\ rnd' = rnd + k + 1
                /\ notifItem' = saveNotifications([notifications.val EXCEPT ![i] = newNotification])
                /\ issued' = Aligned(notifications.val)
        /\ UNCHANGED <<favItem, getFault, setFault, now, pollVars, app, ruleVars>>

\* storageService.clearAllData(): the first removeItem that throws ends it
ClearAllData ==
    /\ IF setFault
       THEN /\ last' = Call("clearAllData", <<>>, Err("Failed to clear storage"))
            /\ UNCHANGED <<favItem, notifItem, issued>>
       ELSE /\ last' = Call("clearAllData", <<>>, Ok(<<>>))
            /\ favItem' = Absent
            /\ notifItem' = Absent
            /\ issued' = <<>>
    /\ UNCHANGED <<getFault, setFault, now, pollVars, app, rnd, ruleVars>>

NotificationCall ==
    \/ GetNotifications
    \/ GetActiveNotifications
    \/ \E a \in {London, Paris}, rules \in StoreRuleLists : AddNotification(a, rules)
    \/ \E id \in NotificationIds : RemoveNotification(id)
    \/ \E id \in NotificationIds, b \in BOOLEAN : UpdateNotificationStatus(id, b)
    \/ \E id \in NotificationIds, rules \in NewRuleLists : UpdateNotification(id, rules)

FavoriteCall ==
    \/ GetFavorites
    \/ \E id \in LocationIds : IsFavorite(id)
    \/ \E a \in LocationArgs : AddFavorite(a)
    \/ \E id \in LocationIds : RemoveFavorite(id)

Next ==
    \/ Tick
    \/ NotificationCall
    \/ ClearAllData

\* the notification operations over a store that works and holds what the
\* service wrote
Spec == Init /\ [][Next]_vars

NextFav ==
    \/ Tick
    \/ FavoriteCall
    \/ ClearAllData

\* the favorites operations over a store that works and holds what the
\* service wrote
SpecFav == Init /\ [][NextFav]_vars

---------------------------------------------------------------------------
(* The store misbehaving: getItem or setItem/removeItem start or stop       *)
(* throwing, an item is overwritten with text that is not JSON              *)

SetGetFault(b) ==
    /\ getFault # b
    /\ getFault' = b
    /\ UNCHANGED <<favItem, notifItem, setFault, issued, last, now, pollVars, app, rnd, ruleVars>>

SetSetFault(b) ==
    /\ setFault # b
    /\ setFault' = b
    /\ UNCHANGED <<favItem, notifItem, getFault, issued, last, now, pollVars, app, rnd, ruleVars>>

\* localStorage.setItem('weather_favorites', 'invalid json')
CorruptFavorites ==
    /\ favItem # Corrupt
    /\ favItem' = Corrupt
    /\ last' = Call("setItem", "weather_favorites", Ok(<<>>))
    /\ UNCHANGED <<notifItem, getFault, setFault, issued, now, pollVars, app, rnd, ruleVars>>

\* localStorage.setItem('weather_notifications', 'invalid json')
CorruptNotifications ==
    /\ notifItem # Corrupt
    /\ notifItem' = Corrupt
    /\ last' = Call("setItem", "weather_notifications", Ok(<<>>))
    /\ UNCHANGED <<favItem, getFault, setFault, issued, now, pollVars, app, rnd, ruleVars>>

NextFault ==
    \/ \E b \in BOOLEAN : SetGetFault(b)
    \/ \E b \in BOOLEAN : SetSetFault(b)
    \/ CorruptFavorites
    \/ CorruptNotifications
    \/ GetFavorites
    \/ \E id \in LocationIds : IsFavorite(id)
    \/ AddFavorite(London)
    \/ \E id \in LocationIds : RemoveFavorite(id)
    \/ GetNotifications
    \/ \E rules \in NewRuleLists : AddNotification(London, rules)
    \/ \E id \in NotificationIds : RemoveNotification(id)
    \/ \E id \in NotificationIds, b \in BOOLEAN : UpdateNotificationStatus(id, b)
    \/ ClearAllData

SpecFault == Init /\ [][NextFault]_vars

---------------------------------------------------------------------------
(* app/WeatherApp.ts: the handlers behind the user interface *)

\* what the /weather endpoint answers with; a place the provider knows no
\* country for comes with an empty (absent) sys.country
WeatherData(name, country, lat, lon) ==
    [null |-> FALSE, main |-> <<[temp |-> 20]>>,
     weather |-> << << <<"C","l","e","a","r">> >> >>, rain |-> FALSE, snow |-> FALSE,
     wind |-> <<[speed |-> 3]>>, name |-> name, sys |-> <<[country |-> country]>>,
     coord |-> <<[lat |-> lat, lon |-> lon]>>]

\* what the /forecast endpoint answers with
ForecastData(name, country, list) ==
    [null |-> FALSE, list |-> list, city |-> <<[name |-> name, country |-> country]>>]

\* new Weather(data); the payload temperatures are whole degrees, which
\* Math.round(temp * 10) / 10 leaves as they are
Weather(data) ==
    IF data.null \/ data.main = <<>> \/ data.weather = <<>> \/ data.weather[1] = <<>>
    THEN Err("Invalid weather data provided")
    ELSE IF data.wind = <<>> \/ data.sys = <<>> \/ data.coord = <<>> THEN Err("TypeError")
    ELSE Ok([temperature |-> data.main[1].temp,
             conditions  |-> data.weather[1][1],
             cityName    |-> data.name,
             country     |-> data.sys[1].country,
             coordinates |-> data.coord[1]])

\* new Forecast(data)
Forecast(data) ==
    IF data.null \/ data.list = <<>> THEN Err("Invalid forecast data provided")
    ELSE IF data.city = <<>> THEN Err("TypeError")
    ELSE Ok([items |-> data.list, city |-> data.city[1].name,
             country |-> data.city[1].country])

\* Location.fromWeatherData(weatherData), called at time t
fromWeatherData(weatherData, t) ==
    IF weatherData.null \/ weatherData.coord = <<>> \/ weatherData.name = <<>>
       \/ weatherData.sys = <<>>
    THEN Err("Invalid weather data for location creation")
    ELSE Location(weatherData.name, weatherData.sys[1].country,
                  weatherData.coord[1].lat, weatherData.coord[1].lon, t)

\* getWeatherByCity / getWeatherByCoordinates once the arguments passed
\* their checks: the request, then new Weather(data)
getWeather(f) ==
    LET data == request(f)
    IN  IF ~data.ok THEN data
        ELSE LET weather == Weather(data.val)
             IN  IF ~weather.ok THEN Err([name |-> "Error", message |-> weather.error])
                 ELSE Ok([weather |-> weather.val, originalData |-> data.val])

\* getForecastByCity / getForecastByCoordinates, likewise
getForecast(f) ==
    LET data == request(f)
    IN  IF ~data.ok THEN data
        ELSE LET forecast == Forecast(data.val)
             IN  IF ~forecast.ok THEN Err([name |-> "Error", message |-> forecast.error])
                 ELSE Ok([forecast |-> forecast.val, originalData |-> data.val])

\* /[a-zA-Z]/.test(s)
hasLetter(s) ==
    \E i \in 1..Len(s) :
        \E k \in 1..Len(UpperChars) : s[i] = UpperChars[k] \/ s[i] = LowerChars[k]

\* the rule collection the store holds
persisted == IF notifItem.kind = "json" THEN notifItem.val ELSE <<>>

\* what a handler leaves behind for inspection: the error it showed (if any)
\* and the fields as they were when it was entered
Handled(op, arg, error) ==
    [op |-> op, arg |-> arg, ret |-> error,
     pre |-> [app |-> app, notifications |-> engine.notifications,
              persisted |-> persisted]]

Answer(data) ==
    [kind |-> "response",
     response |-> [status |-> 200, body |-> [json |-> TRUE, message |-> <<>>, data |-> data]]]

NotFound ==
    [kind |-> "response",
     response |-> [status |-> 404,
                   body |-> [json |-> TRUE, message |-> <<"city not found">>,
                             data |-> "none"]]]

ForecastItems == << [dt |-> 0, main |-> [temp |-> 20]] >>

WeatherAnswers ==
    { Answer(WeatherData(Paris.name, Paris.country, Paris.lat, Paris.lon)),
      Answer(WeatherData(London.name, London.country, London.lat, London.lon)),
      Answer(WeatherData(<<"G","l","o","b","e">>, <<>>, 0, 0)),
      NotFound,
      [kind |-> "abort", response |-> <<>>] }

ForecastAnswers ==
    { Answer(ForecastData(Paris.name, Paris.country, ForecastItems)),
      Answer(ForecastData(London.name, London.country, ForecastItems)),
      Answer(ForecastData(<<"G","l","o","b","e">>, <<>>, <<>>)),
      NotFound }

Cities == { <<>>, <<" ">>, <<"7","5">>, <<" ","P","a","r"," ">>, <<"L","o","n">> }

\* the message of the rejection Promise.all([weather, forecast]) ends with
\* when one of the two requests fails (the weather request's when both do)
rejection(weatherResult, forecastResult) ==
    IF ~weatherResult.ok THEN weatherResult.error.message
    ELSE forecastResult.error.message

\* searchWeather(city); fw and ff are what the two fetches end with
SearchWeather(city, fw, ff) ==
    /\ LET trimmedCity == trim(city)
           weatherResult == getWeather(fw)
           forecastResult == getForecast(ff)
           location == fromWeatherData(weatherResult.val.originalData, now)
           arg == [city |-> city, weather |-> fw, forecast |-> ff]
       IN  IF trimmedCity = <<>>
           THEN /\ out' = Handled("searchWeather", arg, <<"Please enter a city name">>)
                /\ UNCHANGED app
           ELSE IF ~hasLetter(trimmedCity)
           THEN /\ out' = Handled("searchWeather", arg, <<"City name must contain letters">>)
                /\ UNCHANGED app
           ELSE IF ~weatherResult.ok \/ ~forecastResult.ok
           THEN /\ out' = Handled("searchWeather", arg,
                                  <<rejection(weatherResult, forecastResult)>>)
                /\ UNCHANGED app
           ELSE IF ~location.ok
           THEN /\ out' = Handled("searchWeather", arg, <<location.error>>)
                /\ app' = [app EXCEPT !.currentWeather = <<weatherResult.val.weather>>,
                                      !.currentForecast = <<forecastResult.val.forecast>>]
           ELSE /\ out' = Handled("searchWeather", arg, <<>>)
                /\ app' = [app EXCEPT !.currentWeather = <<weatherResult.val.weather>>,
                                      !.currentForecast = <<forecastResult.val.forecast>>,
                                      !.currentLocation = <<location.val>>]
    /\ UNCHANGED <<storeVars, now, rnd, notif, pollVars>>

\* selectLocation(location) for a favourite (a Location object, whose
\* coordinates are in range)
SelectLocation(location, fw, ff) ==
    /\ LET weatherResult == getWeather(fw)
           forecastResult == getForecast(ff)
           arg == [location |-> location, weather |-> fw, forecast |-> ff]
       IN  IF ~weatherResult.ok \/ ~forecastResult.ok
           THEN /\ out' = Handled("selectLocation", arg,
                                  <<"Failed to fetch weather data for selected location">>)
                /\ UNCHANGED app
           ELSE /\ out' = Handled("selectLocation", arg, <<>>)
                /\ app' = [app EXCEPT !.currentWeather = <<weatherResult.val.weather>>,
                                      !.currentForecast = <<forecastResult.val.forecast>>,
                                      !.currentLocation = <<location>>]
    /\ UNCHANGED <<storeVars, now, rnd, notif, pollVars>>

\* createNotification(location, rules) with the location the form was opened for
CreateNotification(a, rules) ==
    /\ \E l \in {Location(a.name, a.country, a.lat, a.lon, now)} :
       \E stored \in {getNotifications(notifItem, getFault, now, rnd).val} :
       \E k \in {drawn(notifItem, getFault)} :
       \E notification \in {Notification(<<l.val>>, <<rules>>, now, rnd + k + 1)} :
       \E saved \in {saveNotifications(Append(stored, notification.val))} :
       \E notifications \in {getNotifications(saved, getFault, now, rnd + k + 1).val} :
           /\ l.ok
           /\ Len(stored) < MaxNotifs
           /\ IF ~notification.ok \/ setFault
              THEN /\ rnd + k + 1 <= MaxRnd
                   /\ rnd' = rnd + k + 1
                   /\ out' = Handled("createNotification",
                                     [location |-> l.val, rules |-> rules],
                                     <<"Failed to create notification">>)
                   /\ UNCHANGED <<notifItem, app, engine>>
              ELSE /\ rnd + k + 1 + Len(notifications) <= MaxRnd
                   /\ rnd' = rnd + k + 1 + Len(notifications)
                   /\ notifItem' = saved
                   /\ app' = [app EXCEPT !.notificationsList = notifications]
                   /\ engine' = [engine EXCEPT
                                    !.notifications = addNotification(@, notification.val)]
                   /\ out' = Handled("createNotification",
                                     [location |-> l.val, rules |-> rules], <<>>)
    /\ UNCHANGED <<favItem, getFault, setFault, issued, last, now, notif, passes, events>>

\* toggleNotification(notificationId, isActive)
ToggleNotification(notificationId, isActive) ==
    /\ \E stored \in {getNotifications(notifItem, getFault, now, rnd).val} :
       \E k \in {drawn(notifItem, getFault)} :
       \E i \in {findIndex(stored, notificationId)} :
       \E saved \in {IF i = 0 THEN notifItem
                     ELSE saveNotifications(
                              [stored EXCEPT
                                  ![i] = IF isActive THEN activate(@) ELSE deactivate(@)])} :
       \E notifications \in {getNotifications(saved, getFault, now, rnd + k).val} :
           IF i # 0 /\ setFault
           THEN /\ rnd + k <= MaxRnd
                /\ rnd' = rnd + k
                /\ out' = Handled("toggleNotification",
                                  [id |-> notificationId, isActive |-> isActive],
                                  <<"Failed to update notification status">>)
                /\ UNCHANGED <<notifItem, app, engine>>
           ELSE /\ rnd + k + Len(notifications) <= MaxRnd
                /\ rnd' = rnd + k + Len(notifications)
                /\ notifItem' = saved
                /\ app' = [app EXCEPT !.notificationsList = notifications]
                /\ engine' = [engine EXCEPT !.notifications = notifications]
                /\ out' = Handled("toggleNotification",
                                  [id |-> notificationId, isActive |-> isActive], <<>>)
    /\ UNCHANGED <<favItem, getFault, setFault, issued, last, now, notif, passes, events>>

\* removeNotification(notificationId)
RemoveNotificationHandler(notificationId) ==
    /\ \E stored \in {getNotifications(notifItem, getFault, now, rnd).val} :
       \E k \in {drawn(notifItem, getFault)} :
       \E saved \in {saveNotifications(removeNotificationList(stored, notificationId))} :
       \E notifications \in {getNotifications(saved, getFault, now, rnd + k).val} :
           IF setFault
           THEN /\ rnd + k <= MaxRnd
                /\ rnd' = rnd + k
                /\ out' = Handled("removeNotification", notificationId,
                                  <<"Failed to remove notification">>)
                /\ UNCHANGED <<notifItem, app, engine>>
           ELSE /\ rnd + k + Len(notifications) <= MaxRnd
                /\ rnd' = rnd + k + Len(notifications)
                /\ notifItem' = saved
                /\ app' = [app EXCEPT !.notificationsList = notifications]
                /\ engine' = [engine EXCEPT
                                 !.notifications = removeNotification(@, notificationId)]
                /\ out' = Handled("removeNotification", notificationId, <<>>)
    /\ UNCHANGED <<favItem, getFault, setFault, issued, last, now, notif, passes, events>>

\* storageService.updateNotification(notificationId, rules) on the rules read
\* from the store, with r the random token of the rule it constructs
updateNotification(stored, notificationId, rules, t, r) ==
    LET i == findIndex(stored, notificationId)
        fresh == Notification(<<stored[i].location>>, <<rules>>, t, r)
    IN  IF i = 0 THEN Err("Notification not found")
        ELSE IF ~fresh.ok THEN fresh
        ELSE Ok([stored EXCEPT ![i] = IF stored[i].isActive THEN fresh.val
                                      ELSE deactivate(fresh.val)])

\* updateNotification(notificationId, rules)
UpdateNotificationHandler(notificationId, rules) ==
    /\ \E stored \in {getNotifications(notifItem, getFault, now, rnd).val} :
       \E k \in {drawn(notifItem, getFault)} :
       \E found \in {findIndex(stored, notificationId) # 0} :
       \E updated \in {updateNotification(stored, notificationId, rules, now, rnd + k + 1)} :
           IF ~updated.ok \/ setFault
           THEN /\ rnd + k + (IF found THEN 1 ELSE 0) <= MaxRnd
                /\ rnd' = rnd + k + (IF found THEN 1 ELSE 0)
                /\ out' = Handled("updateNotification",
                                  [id |-> notificationId, rules |-> rules],
                                  <<"Failed to update notification">>)
                /\ UNCHANGED <<notifItem, app, engine>>
           ELSE \E saved \in {saveNotifications(updated.val)} :
                \E notifications \in
                      {getNotifications(saved, getFault, now, rnd + k + 1).val} :
                    /\ rnd + k + 1 + Len(notifications) <= MaxRnd
                    /\ rnd' = rnd + k + 1 + Len(notifications)
                    /\ notifItem' = saved
                    /\ app' = [app EXCEPT !.notificationsList = notifications]
                    /\ engine' = [engine EXCEPT !.notifications = notifications]
                    /\ out' = Handled("updateNotification",
                                      [id |-> notificationId, rules |-> rules], <<>>)
    /\ UNCHANGED <<favItem, getFault, setFault, issued, last, now, notif, passes, events>>

\* the id behind the buttons of the i-th rule the notifications tab shows
ShownId(i) == app.notificationsList[i].id

NextLookup ==
    \/ \E city \in Cities, fw \in WeatherAnswers, ff \in ForecastAnswers :
          SearchWeather(city, fw, ff)
    \/ \E location \in {PollLondon, PollParis}, fw \in WeatherAnswers,
          ff \in ForecastAnswers : SelectLocation(location, fw, ff)

SpecLookup == Init /\ [][NextLookup]_vars

NextApp ==
    \/ \E a \in {London, Paris}, rules \in StoreRuleLists : CreateNotification(a, rules)
    \/ \E i \in 1..MaxNotifs, isActive \in BOOLEAN :
          i <= Len(app.notificationsList) /\ ToggleNotification(ShownId(i), isActive)
    \/ \E i \in 1..MaxNotifs :
          i <= Len(app.notificationsList) /\ RemoveNotificationHandler(ShownId(i))
    \/ \E i \in 1..MaxNotifs, rules \in StoreRuleLists :
          i <= Len(app.notificationsList) /\ UpdateNotificationHandler(ShownId(i), rules)

SpecApp == Init /\ [][NextApp]_vars

---------------------------------------------------------------------------
(* Properties of the Notification entity (SpecRule) *)

\* C1: reconstructing a Notification from its storage record yields the same
\* id and the same clause list; reconstructing a Location from its record
\* yields a Location with the same identity key.
C1_RoundTripKeepsIdentity ==
    /\ out.op = "fromData" =>
          /\ out.ret.ok
          /\ out.ret.val.id = out.pre.id
          /\ out.ret.val.rules = out.pre.rules
    /\ out.op = "Location.fromData" =>
          /\ out.ret.ok
          /\ LocationEquals(out.ret.val, out.pre.location)

\* two characters are the same letter, whatever their case
SameLetter(a, b) ==
    \/ a = b
    \/ \E i \in 1..Len(UpperChars) : {a, b} = {UpperChars[i], LowerChars[i]}

EqualsIgnoringCase(s, kw) ==
    /\ Len(s) = Len(kw)
    /\ \A i \in 1..Len(s) : SameLetter(s[i], kw[i])

HasCondition(w, kw) ==
    \E i \in 1..Len(w.weather[1]) : EqualsIgnoringCase(w.weather[1][i], kw)

\* the clause semantics as the specification words them
ClauseHolds(rule, w) ==
    CASE rule.condition = "temperature_above" -> w.main[1].temp > rule.value.v
      [] rule.condition = "temperature_below" -> w.main[1].temp < rule.value.v
      [] rule.condition = "rain" -> HasCondition(w, <<"r","a","i","n">>) \/ w.rain
      [] rule.condition = "snow" -> HasCondition(w, <<"s","n","o","w">>) \/ w.snow
      [] rule.condition = "thunderstorm" ->
            HasCondition(w, <<"t","h","u","n","d","e","r","s","t","o","r","m">>)
      [] rule.condition = "clear" -> HasCondition(w, <<"c","l","e","a","r">>)

Reorderings(s) == {[i \in 1..Len(s) |-> s[f[i]]] : f \in Permutations(1..Len(s))}

\* C9: an active rule matches a well-formed payload iff at least one of its
\* clauses holds (strict temperature comparisons, case-insensitive keywords,
\* rain/snow also by the precipitation field), whatever the clause order.
C9_MatchesIffSomeClauseHolds ==
    (out.op = "matchesCondition" /\ out.pre.isActive /\ out.arg \in WellFormedPayloads) =>
        /\ out.ret = (\E i \in 1..Len(out.pre.rules) : ClauseHolds(out.pre.rules[i], out.arg))
        /\ \A p \in Reorderings(out.pre.rules) :
              matchesCondition([out.pre EXCEPT !.rules = p], out.arg) = out.ret

\* a two-clause active rule matched by its second clause only, the
\* temperature sitting exactly on the first clause's threshold
C9_Witness ==
    /\ out.op = "matchesCondition"
    /\ out.pre.isActive
    /\ out.arg \in WellFormedPayloads
    /\ Len(out.pre.rules) = 2
    /\ out.pre.rules[1].condition = "temperature_above"
    /\ out.arg.main[1].temp = out.pre.rules[1].value.v
    /\ ClauseHolds(out.pre.rules[2], out.arg)
    /\ out.ret = TRUE

\* C10: an inactive rule matches no payload, not even one on which every
\* clause holds.
C10_InactiveNeverMatches ==
    /\ (out.op = "matchesCondition" /\ ~out.pre.isActive) => out.ret = FALSE
    /\ (notif # <<>> /\ ~notif[1].isActive) =>
          \A w \in Payloads : matchesCondition(notif[1], w) = FALSE

\* a rule deactivated by a call, then matched against a payload on which
\* all its clauses hold
C10_Witness ==
    /\ out.op = "matchesCondition"
    /\ ~out.pre.isActive
    /\ out.arg \in WellFormedPayloads
    /\ \A i \in 1..Len(out.pre.rules) : ClauseHolds(out.pre.rules[i], out.arg)
    /\ out.ret = FALSE

---------------------------------------------------------------------------
(* Properties of the StorageService *)

\* the collection an item holds
Stored(item) == IF item.kind = "json" THEN item.val ELSE <<>>

\* the positions of the stored rules that an id returned by addNotification names
IssuedAt(id) == {k \in 1..Len(last.pre.issued) : last.pre.issued[k].id = id}

Without(s, k) == [i \in 1..(Len(s) - 1) |-> IF i < k THEN s[i] ELSE s[i + 1]]

\* C2: removeNotification(n.id), n returned by addNotification, leaves the
\* stored collection without that rule, one entry shorter, the other entries
\* unchanged.
C2_RemoveDropsTheRule ==
    last.op = "removeNotification" =>
        \A k \in IssuedAt(last.arg) :
            /\ Len(Stored(notifItem)) = Len(Stored(last.pre.notif)) - 1
            /\ \A i \in 1..Len(Stored(notifItem)) : Stored(notifItem)[i].id # last.arg
            /\ Stored(notifItem) = Without(Stored(last.pre.notif), k)

\* the ids the stored active rules were created with, in stored order
ActiveIssuedIds ==
    LET stored == Stored(last.pre.notif)
        idxs   == SelectSeq([i \in 1..Len(stored) |-> i], LAMBDA i : stored[i].isActive)
    IN  [j \in 1..Len(idxs) |-> last.pre.issued[idxs[j]].id]

\* C3: updateNotificationStatus(n.id, b) leaves the rule created by that add
\* with active flag b, and getActiveNotifications returns exactly the stored
\* active rules, each with the id it was created with.
C3_StatusUpdateAndActiveQuery ==
    /\ last.op = "updateNotificationStatus" =>
          \A k \in IssuedAt(last.arg.id) :
              Stored(notifItem)[k].isActive = last.arg.isActive
    /\ last.op = "getActiveNotifications" =>
          /\ last.ret.ok
          /\ [j \in 1..Len(last.ret.val) |-> last.ret.val[j].id] = ActiveIssuedIds

\* C4: updateNotification(n.id, newRules) succeeds, keeps the length, and
\* leaves at n's position the new clause list with the same id, location and
\* active flag; all other entries are unchanged.
C4_UpdateReplacesRulesInPlace ==
    last.op = "updateNotification" =>
        \A k \in IssuedAt(last.arg.id) :
            /\ last.ret.ok
            /\ Len(Stored(notifItem)) = Len(Stored(last.pre.notif))
            /\ Stored(notifItem)[k].rules = last.arg.rules
            /\ Stored(notifItem)[k].id = Stored(last.pre.notif)[k].id
            /\ Stored(notifItem)[k].location = Stored(last.pre.notif)[k].location
            /\ Stored(notifItem)[k].isActive = Stored(last.pre.notif)[k].isActive
            /\ \A i \in 1..Len(Stored(notifItem)) :
                  i # k => Stored(notifItem)[i] = Stored(last.pre.notif)[i]

\* C5: what getNotifications loads has, rule by rule, the active flag, clause
\* list, location (name, country, lat, lon) and creation timestamp that
\* saveNotifications wrote.
C5_SaveLoadKeepsEveryField ==
    (last.op = "getNotifications" /\ last.pre.notif.kind = "json") =>
        /\ last.ret.ok
        /\ Len(last.ret.val) = Len(last.pre.notif.val)
        /\ \A i \in 1..Len(last.ret.val) :
              /\ last.ret.val[i].isActive = last.pre.notif.val[i].isActive
              /\ last.ret.val[i].rules = last.pre.notif.val[i].rules
              /\ LocationToJSON(last.ret.val[i].location) = last.pre.notif.val[i].location
              /\ <<"iso", last.ret.val[i].createdAt>> = last.pre.notif.val[i].createdAt

\* the identity key of a stored LocationData
KeyOf(d) == <<d.lat, d.lon>>

\* C6: the stored favorites never hold two Locations with the same identity
\* key; addFavorite of a key already present leaves the store unchanged;
\* removeFavorite(id) removes exactly the entries with that key.
C6_FavoritesDedupedByKey ==
    /\ \A i, j \in 1..Len(Stored(favItem)) :
          i # j => KeyOf(Stored(favItem)[i]) # KeyOf(Stored(favItem)[j])
    /\ (/\ last.op = "addFavorite"
        /\ \E i \in 1..Len(Stored(last.pre.fav)) : KeyOf(Stored(last.pre.fav)[i]) = last.arg.id)
          => favItem = last.pre.fav
    /\ last.op = "removeFavorite" =>
          Stored(favItem) = SelectSeq(Stored(last.pre.fav), LAMBDA d : KeyOf(d) # last.arg)

\* a Location with another name and other raw coordinates but the key of a
\* stored favorite is added while two favorites are stored
C6_Witness ==
    /\ last.op = "addFavorite"
    /\ last.ret.ok
    /\ Len(Stored(favItem)) = 2
    /\ \E i \in 1..Len(Stored(last.pre.fav)) :
          /\ KeyOf(Stored(last.pre.fav)[i]) = last.arg.id
          /\ Stored(last.pre.fav)[i].name # last.arg.name

Unreadable(item) == last.pre.getFault \/ item.kind \in {"absent", "corrupt"}

\* C7: getFavorites, getNotifications and isFavorite never raise; when the
\* stored value is absent or not JSON, or getItem faults, the first two
\* return an empty collection and isFavorite returns false.
C7_ReadsNeverRaise ==
    /\ last.op \in {"getFavorites", "getNotifications", "isFavorite"} => last.ret.ok
    /\ (last.op = "getFavorites" /\ Unreadable(last.pre.fav)) => last.ret.val = <<>>
    /\ (last.op = "getNotifications" /\ Unreadable(last.pre.notif)) => last.ret.val = <<>>
    /\ (last.op = "isFavorite" /\ Unreadable(last.pre.fav)) => last.ret.val = FALSE

\* getItem faults while a favorite is stored, and getFavorites is called
C7_Witness ==
    /\ last.op = "getFavorites"
    /\ last.pre.getFault
    /\ Len(Stored(last.pre.fav)) >= 1
    /\ last.ret = Ok(<<>>)

\* C8: while setItem/removeItem fault, addFavorite of a Location not yet
\* present, removeFavorite, addNotification, removeNotification,
\* updateNotificationStatus of an id addNotification returned, and
\* clearAllData each raise and leave both stored collections as they were.
C8_WriteFaultsRaise ==
    (/\ last.pre.setFault
     /\ \/ /\ last.op = "addFavorite"
           /\ \A i \in 1..Len(Stored(last.pre.fav)) :
                 KeyOf(Stored(last.pre.fav)[i]) # last.arg.id
        \/ last.op \in {"removeFavorite", "addNotification", "removeNotification",
                        "clearAllData"}
        \/ /\ last.op = "updateNotificationStatus"
           /\ IssuedAt(last.arg.id) # {})
    => /\ ~last.ret.ok
       /\ favItem = last.pre.fav
       /\ notifItem = last.pre.notif

\* C11: for every Notification and every payload that is null or lacks the
\* metrics block (main) or the condition list (weather), matchesCondition
\* does not raise and returns false, whatever the clauses and their order.
C11_MalformedPayloadNeverMatches ==
    (/\ out.op = "matchesCondition"
     /\ (out.arg.null \/ out.arg.main = <<>> \/ out.arg.weather = <<>>))
    => /\ out.ret = FALSE
       /\ \A p \in Reorderings(out.pre.rules) :
              matchesCondition([out.pre EXCEPT !.rules = p], out.arg) = FALSE

\* C12: new Notification(location, rules) raises and yields no object when
\* the location is missing, the clause list is missing or empty, a clause's
\* condition is not one of the six, or a temperature clause has no numeric
\* value or a value outside [-50, 60]; for every other input it succeeds
\* (thresholds -50 and 60 included) and yields the object.
AcceptableClause(c) ==
    /\ c.condition \in {"temperature_above", "temperature_below", "rain", "snow",
                        "thunderstorm", "clear"}
    /\ c.condition \in {"temperature_above", "temperature_below"} =>
          (c.value.t = "number" /\ -50 <= c.value.v /\ c.value.v <= 60)

AcceptableArgs(arg) ==
    /\ arg.location # <<>>
    /\ arg.rules # <<>>
    /\ arg.rules[1] # <<>>
    /\ \A i \in 1..Len(arg.rules[1]) : AcceptableClause(arg.rules[1][i])

C12_ConstructionValidates ==
    out.op = "new" =>
        /\ out.ret.ok = AcceptableArgs(out.arg)
        /\ out.ret.ok => /\ notif = <<out.ret.val>>
                         /\ out.ret.val.rules = out.arg.rules[1]
                         /\ out.ret.val.location = out.arg.location[1]
        /\ ~out.ret.ok => notif = out.pre

\* a clause with threshold exactly 60 was accepted, after an earlier
\* construction had produced an object
C12_Witness ==
    /\ out.op = "new"
    /\ out.ret.ok
    /\ out.arg.rules[1][1] = Rule("temperature_below", Num(60))
    /\ out.pre # <<>>

\* C20: new Location(name, country, lat, lon) succeeds iff name and country
\* are non-empty after trimming, -90 <= lat <= 90 and -180 <= lon <= 180
\* (limits included); otherwise it raises and no Location exists; on success
\* name and country are stored trimmed and lat/lon rounded to 4 decimals.
NonBlank(s) == \E i \in 1..Len(s) : s[i] # " "

Spaces(n) == [i \in 1..n |-> " "]

\* t is s without its leading and trailing spaces
IsTrimOf(t, s) ==
    /\ t # <<>> => (t[1] # " " /\ t[Len(t)] # " ")
    /\ \E i \in 0..Len(s), j \in 0..Len(s) : s = Spaces(i) \o t \o Spaces(j)

\* r (1e-4 degrees) is the multiple of 0.0001 nearest to x (1e-5 degrees)
IsRounded4(r, x) == 2 * (10 * r - x) < 10 /\ 2 * (x - 10 * r) < 10

C20_LocationValidates ==
    out.op = "Location" =>
        /\ out.ret.ok = (/\ NonBlank(out.arg.name)
                         /\ NonBlank(out.arg.country)
                         /\ -9000000 <= out.arg.lat /\ out.arg.lat <= 9000000
                         /\ -18000000 <= out.arg.lon /\ out.arg.lon <= 18000000)
        /\ out.ret.ok => /\ IsTrimOf(out.ret.val.name, out.arg.name)
                         /\ IsTrimOf(out.ret.val.country, out.arg.country)
                         /\ IsRounded4(out.ret.val.lat, out.arg.lat)
                         /\ IsRounded4(out.ret.val.lon, out.arg.lon)
        /\ ~out.ret.ok => DOMAIN out.ret = {"ok", "error"}

\* a Location at latitude exactly 90 and longitude exactly -180, its name
\* given with surrounding spaces, was constructed
C20_Witness ==
    /\ out.op = "Location"
    /\ out.ret.ok
    /\ out.arg.lat = 9000000
    /\ out.arg.lon = -18000000
    /\ out.arg.name # out.ret.val.name

RECURSIVE IsSubsequence(_, _)
\* a can be obtained from b by deleting entries
IsSubsequence(a, b) ==
    IF a = <<>> THEN TRUE
    ELSE IF b = <<>> THEN FALSE
    ELSE IF Head(a) = Head(b) THEN IsSubsequence(Tail(a), Tail(b))
    ELSE IsSubsequence(a, Tail(b))

LocalDate(item) == (item.dt + out.arg.tz) \div 24

LocalHour(item) == (item.dt + out.arg.tz) % 24

\* C17: for every non-empty entry list, getDailyForecast returns at most 5
\* entries, no two of them on the same local calendar date, in the same
\* relative order as in the input.
C17_DailyAtMostFiveDistinctDates ==
    (out.op = "getDailyForecast" /\ out.arg.list # <<>>) =>
        /\ out.ret.ok
        /\ Len(out.ret.val) <= 5
        /\ \A i, j \in 1..Len(out.ret.val) :
              i # j => LocalDate(out.ret.val[i]) # LocalDate(out.ret.val[j])
        /\ IsSubsequence(out.ret.val, out.arg.list)

\* five entries were returned from a list that spans a sixth date
C17_Witness ==
    /\ out.op = "getDailyForecast"
    /\ out.ret.ok
    /\ Len(out.ret.val) = 5
    /\ \E k \in 1..Len(out.arg.list) :
          \A i \in 1..Len(out.ret.val) :
              LocalDate(out.arg.list[k]) # LocalDate(out.ret.val[i])

\* C18: for a chronologically ordered list, a date that has an input entry
\* with local hour in [9,18] is represented in the result by an entry with
\* local hour in [9,18]; an entry outside [9,18] is selected only for a date
\* without any entry in [9,18].
C18_MiddayEntryPreferred ==
    (out.op = "getDailyForecast" /\ out.ret.ok /\ ~out.arg.reversed) =>
        \A i \in 1..Len(out.ret.val) :
            (\E k \in 1..Len(out.arg.list) :
                /\ LocalDate(out.arg.list[k]) = LocalDate(out.ret.val[i])
                /\ LocalHour(out.arg.list[k]) >= 9
                /\ LocalHour(out.arg.list[k]) <= 18)
            => (LocalHour(out.ret.val[i]) >= 9 /\ LocalHour(out.ret.val[i]) <= 18)

\* C19: a failed HTTP response becomes a provider error chosen by status:
\* 401 'Invalid API key', 404 'Location not found', 429 'API rate limit
\* exceeded', every status 500..599 'Weather service temporarily
\* unavailable', any other non-success status a generic error carrying the
\* status code; a transport failure or a timeout becomes a NetworkError.
C19_ErrorsByStatus ==
    out.op = "request" =>
        LET f == out.arg.fetch
            e == out.ret.error
            st == f.response.status
        IN  /\ f.kind # "response" => (~out.ret.ok /\ e.name = "NetworkError")
            /\ (f.kind = "response" /\ ~(st >= 200 /\ st <= 299)) =>
                  /\ ~out.ret.ok
                  /\ e.name = "WeatherApiError"
                  /\ e.code = <<st>>
                  /\ st = 401 => e.message = "Invalid API key"
                  /\ st = 404 => e.message = "Location not found"
                  /\ st = 429 => e.message = "API rate limit exceeded"
                  /\ (st >= 500 /\ st <= 599) =>
                        e.message = "Weather service temporarily unavailable"

\* C13: after a triggered event for a rule of a location, no further
\* triggered event is emitted for any rule of that location until the
\* minimum re-alert interval has elapsed, also when ticks, reloads and
\* forceCheck start passes while an earlier pass awaits a fetch.
C13_OneEventPerLocationPerInterval ==
    \A i, j \in 1..Len(events) :
        (i < j /\ events[i].key = events[j].key)
        => events[j].at - events[i].at >= MIN_NOTIFICATION_INTERVAL

\* C14: once stopChecking has returned, and until startChecking is called
\* again, no triggered event is delivered, even for a pass that was
\* awaiting its fetch when the engine was stopped.
C14_NoEventAfterStop ==
    \A i \in 1..Len(events) : events[i].isChecking

\* isActive()
isActive(e) == e.isChecking

\* C15: while the engine is stopped no interval timer is live and no call
\* of checkNotifications (tick, reload, forceCheck) starts a pass, hence no
\* new pass issues a fetch; isActive() is true exactly between a
\* startChecking call and the next stopChecking call.
C15_StoppedEngineStartsNoPass ==
    [][ /\ isActive(engine') = (engine'.lifecycle = "started")
        /\ ~isActive(engine') => /\ Len(passes') = Len(passes)
                                 /\ engine'.timers = {} ]_vars

\* the engine was stopped while a pass awaited a fetch, rules are loaded
\* and a further pass could still be started
C15_Witness ==
    /\ engine.lifecycle = "stopped"
    /\ ~isActive(engine)
    /\ Len(engine.notifications) > 0
    /\ Len(passes) < MaxPasses
    /\ \E i \in 1..Len(passes) : passes[i].pc = "awaiting"

\* C16: within a pass no failure ends the pass or leaves a later rule
\* unchecked: every active rule of the pass is reached, is skipped only
\* when its location is in cooldown, and otherwise has its own fetch.
C16_EveryRuleOfAPassIsChecked ==
    \A i \in 1..Len(passes) :
        LET p == passes[i]
        IN  /\ p.pc \in {"awaiting", "done"}
            /\ p.pc = "done" => Len(p.log) = Len(p.active)
            /\ p.pc = "awaiting" => (Len(p.log) = p.idx /\ p.idx <= Len(p.active))
            /\ \A k \in 1..Len(p.log) :
                  /\ p.log[k].kind \in {"skipped", "fetch"}
                  /\ (p.log[k].kind = "skipped")
                       = (p.log[k].at - p.log[k].lastChecked < MIN_NOTIFICATION_INTERVAL)

\* a pass over two rules whose first fetch failed went on to fetch for the
\* second rule and finished
C16_Witness ==
    \E i \in 1..Len(passes) :
        /\ passes[i].pc = "done"
        /\ Len(passes[i].active) = 2
        /\ passes[i].log[1].kind = "fetch"
        /\ passes[i].log[1].outcome = "failed"
        /\ passes[i].log[2].kind = "fetch"

\* C23: activate sets the active flag, deactivate clears it and toggle
\* negates it; each leaves id, location, clause list and creation time as
\* they were, and two toggles in a row restore the object.
SameButFlag(a, b) ==
    /\ a.id = b.id
    /\ a.location = b.location
    /\ a.rules = b.rules
    /\ a.createdAt = b.createdAt

C23_FlagOperationsChangeOnlyTheFlag ==
    /\ out.op = "activate" => (notif[1].isActive /\ SameButFlag(notif[1], out.pre))
    /\ out.op = "deactivate" => (~notif[1].isActive /\ SameButFlag(notif[1], out.pre))
    /\ out.op = "toggle" => /\ notif[1].isActive = ~out.pre.isActive
                            /\ SameButFlag(notif[1], out.pre)
                            /\ toggle(notif[1]) = out.pre

\* an inactive rule was toggled, after time had passed since its creation
C23_Witness ==
    /\ out.op = "toggle"
    /\ ~out.pre.isActive
    /\ notif[1].isActive
    /\ now > notif[1].createdAt

\* C24: distanceTo is symmetric, a.distanceTo(b) equals b.distanceTo(a) for
\* all valid Locations a and b, and a.distanceTo(a) is 0.
C24_DistanceSymmetric ==
    out.op = "distanceTo" =>
        /\ strictEquals(out.ret, distanceTo(out.arg.other, out.arg.this))
        /\ out.arg.this.id = out.arg.other.id => out.ret = Finite(0)

\* C21: two Locations are equal iff their 4-decimal-rounded coordinate
\* pairs are equal, whatever their names and countries, and constructing a
\* Location twice from the same inputs gives the same key.
C21_EqualIffSameRoundedCoordinates ==
    out.op = "equals" =>
        /\ out.ret = (/\ IsRounded4(out.arg.this.lat, out.arg.b.lat)
                      /\ IsRounded4(out.arg.this.lon, out.arg.b.lon))
        /\ out.ret = (out.arg.this.lat = out.arg.other.lat
                      /\ out.arg.this.lon = out.arg.other.lon)
        /\ out.ret = LocationEquals(out.arg.this, out.arg.other)
        /\ out.arg.a = out.arg.b => out.ret

\* two Locations of different name, country and raw coordinates, built at
\* different times, are equal
C21_Witness ==
    /\ out.op = "equals"
    /\ out.ret
    /\ out.arg.this.name # out.arg.other.name
    /\ out.arg.this.country # out.arg.other.country
    /\ out.arg.a.lat # out.arg.b.lat
    /\ out.arg.this.createdAt # out.arg.other.createdAt

\* the clauses of a list that hold on a payload, by position
Holding(rules, w) == {i \in 1..Len(rules) : ClauseHolds(rules[i], w)}

\* the first position of a non-empty set of positions
First(positions) == CHOOSE i \in positions : \A j \in positions : i <= j

\* the sentence the specification gives for a clause
SentenceFor(rule) ==
    CASE rule.condition = "temperature_above" ->
            "Temperature is now ${temp}°C, above ${rule.value}°C in ${fullName}"
      [] rule.condition = "temperature_below" ->
            "Temperature is now ${temp}°C, below ${rule.value}°C in ${fullName}"
      [] rule.condition = "rain" -> "It's currently raining in ${fullName}"
      [] rule.condition = "snow" -> "It's currently snowing in ${fullName}"
      [] rule.condition = "thunderstorm" -> "There's a thunderstorm in ${fullName}"
      [] rule.condition = "clear" -> "The sky is clear in ${fullName}"

\* C22: for every rule and well-formed payload, getNotificationMessage
\* returns the sentence of the first clause in list order that holds on the
\* payload, naming the full name of the rule's location, and returns the
\* generic 'Weather update for <location>' sentence exactly when no clause
\* holds.
C22_MessageOfFirstHoldingClause ==
    (out.op = "getNotificationMessage" /\ out.arg \in WellFormedPayloads) =>
        LET holding == Holding(out.pre.rules, out.arg)
        IN  /\ out.ret.ok
            /\ out.ret.val.place = getFullName(out.pre.location)
            /\ (out.ret.val.template = "Weather update for ${fullName}") = (holding = {})
            /\ holding # {} =>
                  LET rule == out.pre.rules[First(holding)]
                  IN  /\ out.ret.val.template = SentenceFor(rule)
                      /\ rule.condition \in {"temperature_above", "temperature_below"} =>
                             /\ out.ret.val.temp = <<out.arg.main[1].temp>>
                             /\ out.ret.val.value = <<rule.value>>

\* a message for a rule whose two clauses both hold, and whose second clause
\* has another sentence than the first
C22_Witness ==
    /\ out.op = "getNotificationMessage"
    /\ out.arg \in WellFormedPayloads
    /\ Len(out.pre.rules) = 2
    /\ Holding(out.pre.rules, out.arg) = {1, 2}
    /\ out.ret.ok
    /\ out.ret.val.template = SentenceFor(out.pre.rules[1])
    /\ out.ret.val.template # SentenceFor(out.pre.rules[2])

\* the generic message for a rule none of whose clauses holds
C22_WitnessGeneric ==
    /\ out.op = "getNotificationMessage"
    /\ out.arg \in WellFormedPayloads
    /\ Holding(out.pre.rules, out.arg) = {}
    /\ out.ret = Ok(Sentence("Weather update for ${fullName}", <<>>, <<>>,
                             getFullName(out.pre.location)))

\* the engine holds the rule of this id as an active rule
ListedActive(id) ==
    \E k \in 1..Len(engine.notifications) :
        engine.notifications[k].id = id /\ engine.notifications[k].isActive

\* C27: once a rule has left the engine's active set, by
\* removeNotification(id) or by a reload that omits it or carries it as
\* inactive, no triggered event carrying it is delivered, even by a pass
\* that began before the change and is still awaiting a fetch.
C27_NoEventForARuleTakenOut ==
    \A i \in 1..Len(events) : events[i].listed

\* a loaded rule that stands behind another rule of its location, and the
\* added rule, by id
WatchedRuleIds == {HeatInLondon.id, HeatInParis.id}

\* the engine is running and holds the rule as an active rule
Watched(id) == isActive(engine) /\ ListedActive(id)

\* a pass on record has reached the rule: read its location's last-fired
\* time and skipped it or issued its fetch
Checked(id) ==
    \E i \in 1..Len(passes) : \E k \in 1..Len(passes[i].log) : passes[i].active[k].id = id

\* the answer f carries weather on which a clause of the rule holds
FetchedWeatherMatches(f, notification) ==
    /\ f.kind = "response"
    /\ f.response.status = 200
    /\ \E k \in 1..Len(notification.rules) :
          ClauseHolds(notification.rules[k], f.response.body.data)

\* a pass awaits a fetch
SomeFetchInFlight == \E i \in 1..Len(passes) : passes[i].pc = "awaiting"

\* C26: while the engine stays running, every rule that stays in its list
\* and stays active, loaded or added, is eventually checked; the fetches
\* awaited are eventually over and the passes at their end; and when a
\* fetch succeeds with weather matching the rule, the step that ends the
\* fetch delivers a triggered event carrying that rule.
C26_ActiveRulesAreEventuallyChecked ==
    /\ \A id \in WatchedRuleIds :
          (Watched(id) /\ ~Checked(id)) ~> (~Watched(id) \/ Checked(id))
    /\ SomeFetchInFlight ~> ~SomeFetchInFlight
    /\ [][ \A i \in 1..Len(passes), f \in ReloadFetchOutcomes :
             (FetchCompletes(i, f) /\ FetchedWeatherMatches(f, passes[i].active[passes[i].idx]))
             => /\ Len(events') = Len(events) + 1
                /\ events'[Len(events')].id = passes[i].active[passes[i].idx].id ]_vars

\* the rule handed over by addNotification, never by loadNotifications,
\* has been checked and a triggered event carrying it has been delivered
C26_Witness ==
    /\ isActive(engine)
    /\ Checked(HeatInParis.id)
    /\ \E i \in 1..Len(events) : events[i].id = HeatInParis.id

\* the location key of the check a pass has in flight
InFlightKey(pass) == locationKey(pass.active[pass.idx].location)

\* C25: at every moment at most one check (read of the last-fired time,
\* fetch, write of the time) is in flight for a location key, whatever the
\* interleaving of interval ticks, the initial check, reloads and
\* forceCheck calls.
C25_OneCheckInFlightPerLocation ==
    \A i, j \in 1..Len(passes) :
        (i < j /\ passes[i].pc = "awaiting" /\ passes[j].pc = "awaiting")
        => InFlightKey(passes[i]) # InFlightKey(passes[j])

\* C30: the engine holds at most one scheduled interval timer, a timer is
\* scheduled iff isActive() is true, and startChecking on a running engine
\* schedules no timer and starts no check.
C30_OneTimerIffActive ==
    /\ Cardinality(engine.timers) <= 1
    /\ (engine.timers # {}) = isActive(engine)
    /\ engine.timers = {engine.checkInterval[k] : k \in 1..Len(engine.checkInterval)}
    /\ isActive(engine) =>
          startChecking(engine, dateNow) = [engine |-> engine, spawned |-> <<>>]

\* a running engine with rules loaded, its one timer scheduled and two
\* passes awaiting their fetches: startChecking would change nothing
C30_Witness ==
    /\ isActive(engine)
    /\ Cardinality(engine.timers) = 1
    /\ Len(engine.notifications) > 0
    /\ Len(passes) = 2
    /\ passes[1].pc = "awaiting"
    /\ passes[2].pc = "awaiting"


---------------------------------------------------------------------------
(* Properties of the WeatherApp handlers (SpecApp) *)

\* a rule object and a stored record that describe the same rule
SameRule(n, d) ==
    /\ LocationToJSON(n.location) = d.location
    /\ n.rules = d.rules
    /\ n.isActive = d.isActive

NotificationHandlers ==
    {"createNotification", "toggleNotification", "updateNotification", "removeNotification"}

\* C28: after a notification handler of WeatherApp (createNotification,
\* toggleNotification, updateNotification, removeNotification) completes
\* without showing an error, the NotificationManager's rule list and the
\* collection the StorageService persists have the same number of rules and
\* agree, rule by rule, on location, clause list and active flag.
C28_ManagerHoldsWhatTheStoreHolds ==
    (out.op \in NotificationHandlers /\ Len(out.ret) = 0)
    => /\ Len(engine.notifications) = Len(persisted)
       /\ \A i \in 1..Len(engine.notifications) :
             SameRule(engine.notifications[i], persisted[i])

\* C29: whenever searchWeather or selectLocation ends by showing an error,
\* currentWeather, currentForecast and currentLocation all hold the values
\* they had before the operation.
C29_FailedLookupChangesNoField ==
    (out.op \in {"searchWeather", "selectLocation"} /\ Len(out.ret) > 0)
    => /\ app.currentWeather = out.pre.app.currentWeather
       /\ app.currentForecast = out.pre.app.currentForecast
       /\ app.currentLocation = out.pre.app.currentLocation

====
